---- MODULE Spec2Model ----
(***************************************************************************)
(* A model of the pipeline execution core of piaflow (noppflow):           *)
(*   - config.Step / config.App and EffectiveSteps  (internal/config)      *)
(*   - pipeline.Runner.Run, the local executor      (internal/pipeline)    *)
(*   - Server.runAppAsK8sJob, the cluster executor  (internal/server)      *)
(*   - Server.triggerRun, the run lifecycle         (internal/server)      *)
(*   - Store.CreateRun / UpdateRunLog / UpdateRunStatus (internal/store)   *)
(*                                                                         *)
(* Go strings are sequences of one-character strings, so that trimming     *)
(* and lower-casing are computed.  A log is a sequence of lines; a line is *)
(* the tuple of the parts its format string puts together.                 *)
(***************************************************************************)
EXTENDS Integers, Sequences, FiniteSets, TLC

\* ------------------------------------------------------------------ bounds
\* triggerRun requests are served until this many runs have been created.
MaxRuns == 1

\* createApp is served while the app list is shorter than this.
MaxApps == 10

\* Calls of EffectiveSteps made on one app value.
MaxCalls == 2

\* The longest explicit step list of a submitted app.
MaxSteps == 2

\* The largest sleep_sec validateAndNormalizeApp accepts.
MaxSleepSec == 3600
MaxUsers == 3
MaxTokens == 2
MaxRotated == 1
MaxCmdLen == 3
MaxMoreRuns == 1

\* ----------------------------------------------------------------- strings
IsSpace(c) == c \in {" ", "\t", "\n"}

RECURSIVE TrimLeft(_)
TrimLeft(s) ==
  IF s = <<>> THEN <<>>
  ELSE IF IsSpace(Head(s)) THEN TrimLeft(Tail(s)) ELSE s

RECURSIVE TrimRight(_)
TrimRight(s) ==
  IF s = <<>> THEN <<>>
  ELSE IF IsSpace(s[Len(s)]) THEN TrimRight(SubSeq(s, 1, Len(s) - 1)) ELSE s

\* strings.TrimSpace
TrimSpace(s) == TrimRight(TrimLeft(s))

LowerChar(c) ==
  CASE c = "K" -> "k"
    [] c = "H" -> "h"
    [] c = "U" -> "u"
    [] OTHER -> c

\* strings.ToLower
ToLower(s) == [i \in 1..Len(s) |-> LowerChar(s[i])]

Digit(d) ==
  CASE d = 0 -> "0" [] d = 1 -> "1" [] d = 2 -> "2" [] d = 3 -> "3"
    [] d = 4 -> "4" [] d = 5 -> "5" [] d = 6 -> "6" [] d = 7 -> "7"
    [] d = 8 -> "8" [] d = 9 -> "9"

RECURSIVE ItoaDigits(_)
ItoaDigits(n) == IF n > 0 THEN ItoaDigits(n \div 10) \o <<Digit(n % 10)>> ELSE <<>>

\* config.strconvItoa
strconvItoa(n) == IF n = 0 THEN <<"0">> ELSE ItoaDigits(n)

\* --------------------------------------------------------------- Step, App
\* A Kind that takes the last mode set, however many are set.
Kind_LastModeWins(s) ==
  IF s.K8sDeploy THEN "k8s_deploy"
  ELSE IF TrimSpace(s.Script) # <<>> THEN "script"
  ELSE IF TrimSpace(s.File) # <<>> THEN "file"
  ELSE IF TrimSpace(s.Cmd) # <<>> THEN "cmd" ELSE ""

\* config.Step.Kind
Kind(s) ==
  LET cmd    == TrimSpace(s.Cmd)
      file   == TrimSpace(s.File)
      script == TrimSpace(s.Script)
      count  == (IF cmd # <<>> THEN 1 ELSE 0) + (IF file # <<>> THEN 1 ELSE 0)
                + (IF script # <<>> THEN 1 ELSE 0) + (IF s.K8sDeploy THEN 1 ELSE 0)
      kind   == IF s.K8sDeploy THEN "k8s_deploy"
                ELSE IF script # <<>> THEN "script"
                ELSE IF file # <<>> THEN "file"
                ELSE IF cmd # <<>> THEN "cmd" ELSE ""
  IN IF count # 1 THEN "" ELSE kind

MkStep(name, cmd, file, script, k8s, sleep) ==
  [Name |-> name, Cmd |-> cmd, File |-> file, Script |-> script,
   K8sDeploy |-> k8s, SleepSec |-> sleep]

\* A loop body that names an unnamed step after the loop index i, not i+1.
NormalizedStep_ZeroIndexed(s, i) ==
  LET name == TrimSpace(s.Name) IN
  [Name |-> IF name = <<>> THEN <<"s", "t", "e", "p", "-">> \o strconvItoa(i - 1) ELSE name,
   Cmd |-> TrimSpace(s.Cmd), File |-> TrimSpace(s.File), Script |-> TrimSpace(s.Script),
   K8sDeploy |-> s.K8sDeploy, SleepSec |-> s.SleepSec]

\* The body of the loop of EffectiveSteps over a.Steps (i is 1-indexed here,
\* as the code's i+1).
NormalizedStep(s, i) ==
  LET name == TrimSpace(s.Name) IN
  MkStep(IF name = <<>> THEN <<"s", "t", "e", "p", "-">> \o strconvItoa(i) ELSE name,
         TrimSpace(s.Cmd), TrimSpace(s.File), TrimSpace(s.Script),
         s.K8sDeploy, s.SleepSec)

RECURSIVE ExplicitSteps(_, _)
ExplicitSteps(steps, i) ==
  IF i > Len(steps) THEN <<>>
  ELSE LET n == NormalizedStep(steps[i], i) IN
       (IF Kind(n) = "" THEN <<>> ELSE <<n>>) \o ExplicitSteps(steps, i + 1)

\* Legacy steps that all take the sleep of the test step.
LegacySteps_TestSleep(a) ==
  LET S(name, cmd) == [Name |-> name, Cmd |-> TrimSpace(cmd), File |-> <<>>, Script |-> <<>>,
                       K8sDeploy |-> FALSE, SleepSec |-> a.TestSleepSec] IN
  (IF TrimSpace(a.TestCmd) # <<>> THEN <<S(<<"t", "e", "s", "t">>, a.TestCmd)>> ELSE <<>>)
  \o (IF TrimSpace(a.BuildCmd) # <<>> THEN <<S(<<"b", "u", "i", "l", "d">>, a.BuildCmd)>> ELSE <<>>)
  \o (IF TrimSpace(a.DeployCmd) # <<>> THEN <<S(<<"d", "e", "p", "l", "o", "y">>, a.DeployCmd)>> ELSE <<>>)

\* The legacy fields of App as steps
LegacySteps(a) ==
  (IF TrimSpace(a.TestCmd) # <<>>
     THEN <<MkStep(<<"t", "e", "s", "t">>, TrimSpace(a.TestCmd), <<>>, <<>>, FALSE, a.TestSleepSec)>>
     ELSE <<>>)
  \o (IF TrimSpace(a.BuildCmd) # <<>>
     THEN <<MkStep(<<"b", "u", "i", "l", "d">>, TrimSpace(a.BuildCmd), <<>>, <<>>, FALSE, a.BuildSleepSec)>>
     ELSE <<>>)
  \o (IF TrimSpace(a.DeployCmd) # <<>>
     THEN <<MkStep(<<"d", "e", "p", "l", "o", "y">>, TrimSpace(a.DeployCmd), <<>>, <<>>, FALSE, a.DeploySleepSec)>>
     ELSE <<>>)

\* config.App.EffectiveSteps
EffectiveSteps(a) ==
  IF Len(a.Steps) > 0 THEN ExplicitSteps(a.Steps, 1) ELSE LegacySteps(a)

\* config.NormalizeAppSteps
NormalizeAppSteps(a) == [a EXCEPT !.Steps = EffectiveSteps(a)]

\* pipeline.splitCommand, as the loop over the characters of s from position i
RECURSIVE SplitFrom(_, _, _, _, _)
SplitFrom(s, i, buf, quote, parts) ==
  IF i > Len(s) THEN (IF Len(buf) > 0 THEN Append(parts, buf) ELSE parts)
  ELSE LET r == s[i] IN
       IF r = " " THEN
         IF ~quote
           THEN (IF Len(buf) > 0 THEN SplitFrom(s, i + 1, <<>>, quote, Append(parts, buf))
                                 ELSE SplitFrom(s, i + 1, buf, quote, parts))
           ELSE SplitFrom(s, i + 1, Append(buf, r), quote, parts)
       ELSE IF r \in {"\"", "'"} THEN SplitFrom(s, i + 1, buf, ~quote, parts)
       ELSE SplitFrom(s, i + 1, Append(buf, r), quote, parts)

splitCommand(s) == SplitFrom(s, 1, <<>>, FALSE, <<>>)

MkApp(id, key, mode, ns, sa, image, manifest, chart, steps, test, build, deploy) ==
  [ID |-> id, Name |-> "app", Repo |-> "repo", Branch |-> "main",
   SSHKeyName |-> key, DeployMode |-> mode, K8sNamespace |-> ns,
   K8sServiceAccount |-> sa, K8sRunnerImage |-> image,
   DeployManifestPath |-> manifest, HelmChart |-> chart, HelmValuesPath |-> <<>>,
   Steps |-> steps, TestCmd |-> test, BuildCmd |-> build, DeployCmd |-> deploy,
   TestSleepSec |-> 1, BuildSleepSec |-> 0, DeploySleepSec |-> 0]

\* ------------------------------------------------------------- log lines
\* The format strings of Runner.Run and of buildK8sJobScript.
StepMarker(name)      == <<"=== Step: ", name, " ===">>
StepOKLine(name)      == <<name, " step OK">>
StepFailedLine(name, err) == <<name, " step failed: ", err>>
SleepingLine(n, name) == <<"Sleeping ", n, "s after ", name, "...">>
CommitLine(sha)       == <<"commit: ", sha>>
SyncErrLine(what)     == <<what, ": ", "error">>
CompletedLine         == <<"pipeline completed successfully">>
TimeoutLine           == <<"k8s job timed out">>
BlankLine             == <<>>
\* What a subprocess writes to the log buffer (stdout and stderr).
OutputLine            == <<"(subprocess output)">>

IsStepMarker(l) == Len(l) = 3 /\ l[1] = "=== Step: "
IsStepOK(l)     == Len(l) = 2 /\ l[2] = " step OK"
IsStepFailed(l) == Len(l) = 3 /\ l[2] = " step failed: "
IsSleeping(l)   == Len(l) = 5 /\ l[1] = "Sleeping "
IsMarker(l)     == IsStepMarker(l) \/ IsStepOK(l) \/ IsStepFailed(l) \/ IsSleeping(l)

IsPrefix(s, t) == Len(s) <= Len(t) /\ SubSeq(t, 1, Len(s)) = s

\* ------------------------------------------------------------------ store
\* Store.CreateRun: INSERT ... status 'pending', started_at now
CreateRun(tbl, id, appID, commitSHA, triggeredBy) ==
  [x \in DOMAIN tbl \cup {id} |->
     IF x = id
       THEN [app_id |-> appID, triggered_by |-> triggeredBy, status |-> "pending",
             commit_sha |-> commitSHA, log |-> <<>>, started_at |-> "set",
             ended_at |-> "null"]
       ELSE tbl[x]]

\* Store.UpdateRunLog: UPDATE runs SET log = ? WHERE id = ?
UpdateRunLog(tbl, id, log) ==
  IF id \in DOMAIN tbl THEN [tbl EXCEPT ![id].log = log] ELSE tbl

\* An UpdateRunStatus that sets ended_at whatever the status.
UpdateRunStatus_AlwaysEnds(tbl, id, status, log) ==
  IF id \notin DOMAIN tbl THEN tbl
  ELSE [tbl EXCEPT ![id].status = status, ![id].log = log, ![id].ended_at = "set"]

\* An UpdateRunStatus whose UPDATE also writes commit_sha and started_at.
UpdateRunStatus_WritesMore(tbl, id, status, log) ==
  IF id \notin DOMAIN tbl THEN tbl
  ELSE IF status \in {"success", "failed"}
    THEN [tbl EXCEPT ![id].status = status, ![id].log = log, ![id].ended_at = "set",
                     ![id].commit_sha = "head"]
    ELSE [tbl EXCEPT ![id].status = status, ![id].log = log, ![id].started_at = "reset"]

\* Store.UpdateRunStatus
UpdateRunStatus(tbl, id, status, log) ==
  IF id \notin DOMAIN tbl THEN tbl
  ELSE IF status \in {"success", "failed"}
    THEN [tbl EXCEPT ![id].status = status, ![id].log = log, ![id].ended_at = "set"]
    ELSE [tbl EXCEPT ![id].status = status, ![id].log = log]

\* ------------------------------------------------ the local step dispatch
KUBECTL == <<"k", "u", "b", "e", "c", "t", "l">>
HELM    == <<"h", "e", "l", "m">>

\* Runner.runK8sDeployWithLog: "run" stands for the kubectl or helm
\* subprocess, anything else is the error returned without running one.
runK8sDeployWithLog(app) ==
  LET mode == TrimSpace(ToLower(app.DeployMode)) IN
  IF mode = KUBECTL
    THEN (IF TrimSpace(app.DeployManifestPath) = <<>>
            THEN "deploy_manifest_path is required for deploy_mode=kubectl" ELSE "run")
  ELSE IF mode = HELM
    THEN (IF TrimSpace(app.HelmChart) = <<>>
            THEN "helm_chart is required for deploy_mode=helm" ELSE "run")
  ELSE "unsupported deploy_mode for k8s_deploy step"

\* Runner.runStepWithLog with runCmdWithLog, runFileWithLog, runScriptWithLog:
\* "run" when a subprocess is started, "nil" when the step returns nil without
\* starting one (an empty command line), otherwise the error returned at once.
runStepWithLog(app, step) ==
  CASE Kind(step) = "cmd" -> IF Len(splitCommand(step.Cmd)) = 0 THEN "nil" ELSE "run"
    [] Kind(step) = "file" -> "run"
    [] Kind(step) = "script" -> "run"
    [] Kind(step) = "k8s_deploy" -> runK8sDeployWithLog(app)
    [] OTHER -> "invalid step execution mode"

\* ------------------------------------------------- the cluster job script
\* server.appUsesK8sJob
appUsesK8sJob_FirstStepOnly(app) ==
  /\ Len(EffectiveSteps(app)) > 0
  /\ Kind(EffectiveSteps(app)[1]) = "k8s_deploy"

appUsesK8sJob(app) ==
  \E i \in 1..Len(EffectiveSteps(app)) : Kind(EffectiveSteps(app)[i]) = "k8s_deploy"

ScriptLine(op, args, step) == [op |-> op, args |-> args, step |-> step]

\* The lines buildK8sJobScript appends for one step (step i of the effective steps).
StepScriptLines(app, step, i) ==
  <<ScriptLine("echo", StepMarker(step.Name), i)>>
  \o (CASE Kind(step) = "cmd" -> <<ScriptLine("sh -c", <<step.Cmd>>, i)>>
        [] Kind(step) = "file" -> <<ScriptLine("sh", <<step.File>>, i)>>
        [] Kind(step) = "script" -> <<ScriptLine("printf | sh", <<step.Script>>, i)>>
        [] Kind(step) = "k8s_deploy" ->
             IF app.DeployMode = KUBECTL
               THEN <<ScriptLine("kubectl apply", <<app.K8sNamespace, app.DeployManifestPath>>, i)>>
             ELSE IF app.DeployMode = HELM
               THEN <<ScriptLine("helm upgrade",
                        <<app.ID, app.HelmChart, app.K8sNamespace>>
                        \o (IF TrimSpace(app.HelmValuesPath) # <<>>
                              THEN <<app.HelmValuesPath>> ELSE <<>>), i)>>
             ELSE <<>>
        [] OTHER -> <<>>)
  \o <<ScriptLine("echo", StepOKLine(step.Name), i)>>
  \o (IF step.SleepSec > 0 THEN <<ScriptLine("sleep", <<step.SleepSec>>, i)>> ELSE <<>>)

RECURSIVE AllStepScriptLines(_, _, _)
AllStepScriptLines(app, steps, i) ==
  IF i > Len(steps) THEN <<>>
  ELSE StepScriptLines(app, steps[i], i) \o AllStepScriptLines(app, steps, i + 1)

\* server.buildK8sJobScript
buildK8sJobScript(app) ==
  <<ScriptLine("set -eu", <<>>, 0),
    ScriptLine("mkdir -p", <<"/workspace">>, 0),
    ScriptLine("cd", <<"/workspace">>, 0),
    ScriptLine("export", <<"GIT_SSH_COMMAND">>, 0),
    ScriptLine("git clone", <<app.Branch, app.Repo>>, 0),
    ScriptLine("cd", <<"repo">>, 0)>>
  \o AllStepScriptLines(app, EffectiveSteps(app), 1)
  \o <<ScriptLine("echo", CompletedLine, 0)>>

\* Script lines that start a program whose exit status `set -e` tests.
FallibleOps == {"git clone", "sh -c", "sh", "printf | sh", "kubectl apply", "helm upgrade"}

\* The log the poll loop returns at the deadline.
TimedOutLog(lastLog) ==
  IF lastLog = <<>> THEN <<TimeoutLine>> ELSE lastLog \o <<BlankLine, TimeoutLine>>

\* ------------------------------------------------------------------ state
VARIABLES
  apps,       \* Server.apps: the in-memory app list
  keys,       \* the ssh_keys table: key name -> private key
  runs,       \* the runs table: run id -> row
  lastRunID,  \* the AUTOINCREMENT counter of the runs table
  resp,       \* the last response written by triggerRun
  task,       \* run id -> the state of the goroutine triggerRun started for it
  workspace,  \* app ids whose workDir/<appID>/.git exists
  tmpKeys,    \* run ids whose temporary ssh key file exists
  secrets,    \* run ids whose secret noppflow-run-<id>-ssh exists in the cluster
  jobs,       \* run id -> the batch job noppflow-run-<id> in the cluster
  hist,       \* run id -> history of the run (observation only)
  req,        \* the triggerRun request between its app lookup and CreateRun
  call,       \* a config.App value and what the calls made on it returned
  appsFile,   \* the app list in the configuration file at Server.appsPath
  users,      \* the users table: id -> row
  lastUserID, \* the AUTOINCREMENT counter of the users table
  userGroups, \* the user_groups table: pairs <<user_id, group_id>>
  appGroups,  \* the app_groups table: pairs <<app_id, group_id>>
  sessions,   \* Server.sessions: token -> sessionData
  lastToken,  \* the number of tokens randomToken has returned
  authReq     \* a request between readSessionUser and the rotation check

vars == <<apps, keys, runs, lastRunID, resp, task, workspace, tmpKeys, secrets, jobs, hist,
          req, call, appsFile,
          users, lastUserID, userGroups, appGroups, sessions, lastToken, authReq>>

\* The state of the users, their groups and their sessions.
authVars == <<users, lastUserID, userGroups, appGroups, sessions, lastToken, authReq>>

NoReq  == [pc |-> "none"]
NoCall == [app |-> <<>>, arg |-> <<>>, out |-> <<>>]

NoResult == [Success |-> FALSE, Log |-> <<>>, set |-> FALSE]
Result(success, log) == [Success |-> success, Log |-> log, set |-> TRUE]

\* ------------------------------------------------------------- the apps
NS  == <<"n", "s">>
SA  == <<"s", "a">>
IMG == <<"i", "m", "g">>
K1  == <<"k", "1">>

\* A local app with an explicit step list: an unnamed cmd step with a sleep, a
\* step with two modes (dropped by EffectiveSteps), a script step.
AppLocal ==
  MkApp("app-local", K1, <<>>, <<>>, <<>>, <<>>, <<>>, <<>>,
        <<MkStep(<<>>, <<"m", "a", "k", "e">>, <<>>, <<>>, FALSE, 1),
          MkStep(<<"x">>, <<"a">>, <<"f">>, <<>>, FALSE, 0),
          MkStep(<<" ", "b", " ">>, <<>>, <<>>, <<"e", "x", "i", "t">>, FALSE, 0)>>,
        <<>>, <<>>, <<>>)

\* A legacy app: test command, blank build command, a deploy command that
\* splits into no words.
AppLegacy ==
  MkApp("app-legacy", K1, <<>>, <<>>, <<>>, <<>>, <<>>, <<>>, <<>>,
        <<"g", "o", " ", "t">>, <<" ">>, <<"\"", "\"">>)

\* An app whose pipeline runs as a cluster job.
AppK8s ==
  MkApp("app-k8s", K1, KUBECTL, NS, SA, IMG, <<"m", ".", "y">>, <<>>,
        <<MkStep(<<"c">>, <<"m", "a", "k", "e">>, <<>>, <<>>, FALSE, 1),
          MkStep(<<"d">>, <<>>, <<>>, <<>>, TRUE, 0)>>,
        <<>>, <<>>, <<>>)

\* An app of the configuration file (never validated) with a k8s_deploy step
\* and no runner image.
AppK8sNoImage ==
  MkApp("app-k8s-noimg", K1, HELM, NS, SA, <<" ">>, <<>>, <<"c", "h">>,
        <<MkStep(<<"d">>, <<>>, <<>>, <<>>, TRUE, 0)>>,
        <<>>, <<>>, <<>>)

\* Apps of the configuration file with a k8s_deploy step and a blank namespace
\* or service account.
AppK8sNoNS ==
  MkApp("app-k8s-nons", K1, KUBECTL, <<" ">>, SA, IMG, <<"m", ".", "y">>, <<>>,
        <<MkStep(<<"d">>, <<>>, <<>>, <<>>, TRUE, 0)>>,
        <<>>, <<>>, <<>>)
AppK8sNoSA ==
  MkApp("app-k8s-nosa", K1, KUBECTL, NS, <<>>, IMG, <<"m", ".", "y">>, <<>>,
        <<MkStep(<<"d">>, <<>>, <<>>, <<>>, TRUE, 0)>>,
        <<>>, <<>>, <<>>)

\* An app of the configuration file with a k8s_deploy step and a deploy mode
\* that is neither kubectl nor helm.
AppK8sBadMode ==
  MkApp("app-k8s-mode", K1, <<"x">>, NS, SA, IMG, <<"m", ".", "y">>, <<>>,
        <<MkStep(<<"d">>, <<>>, <<>>, <<>>, TRUE, 0)>>,
        <<>>, <<>>, <<>>)

\* Apps without a usable ssh key.
AppNoKey ==
  MkApp("app-nokey", <<" ">>, <<>>, <<>>, <<>>, <<>>, <<>>, <<>>, <<>>,
        <<"t">>, <<>>, <<>>)
AppLostKey ==
  MkApp("app-lostkey", <<"k", "9">>, <<>>, <<>>, <<>>, <<>>, <<>>, <<>>, <<>>,
        <<"t">>, <<>>, <<>>)

InitialApps == <<AppLocal, AppLegacy, AppK8s, AppK8sNoImage, AppK8sNoNS, AppK8sNoSA,
                 AppK8sBadMode, AppNoKey, AppLostKey>>

AppIDs == {InitialApps[i].ID : i \in 1..Len(InitialApps)} \cup {"app-none"}
\* The users of the users table at start: the admin main.go ensures
\* (EnsureAdminUser) and a user without the admin flag.
AdminUser == [ID |-> 1, Username |-> "admin", IsAdmin |-> TRUE]
DevUser   == [ID |-> 2, Username |-> "dev", IsAdmin |-> FALSE]
\* The authUser values of the requests of the run lifecycle.
Users == {AdminUser}

\* auth.HashPassword and auth.CheckPassword: sha256 of the password behind
\* the prefix "sha256$".
HashPassword(password) == <<"sha256$", password>>
CheckPassword(password, hash) == hash = HashPassword(password)

NoAuthReq == [pc |-> "none"]

\* userCanAccessApp without the user's groups: any assigned app is allowed.
userCanAccessApp_AnyGroup(userID, appID) == \E q \in appGroups : q[1] = appID

\* The default group of seed.Run, which every app of the file is assigned
\* to, and a second group.
Groups == {1, 2}

InitAuth ==
  /\ users = (1 :> [username |-> "admin", password_hash |-> HashPassword("pw-a"), is_admin |-> TRUE])
             @@ (2 :> [username |-> "dev", password_hash |-> HashPassword("pw-d"), is_admin |-> FALSE])
  /\ lastUserID = 2
  /\ userGroups = {<<2, 2>>}
  /\ appGroups = {<<InitialApps[i].ID, 1>> : i \in 1..Len(InitialApps)}
  /\ sessions = <<>>
  /\ lastToken = 0
  /\ authReq = NoAuthReq

\* Store.UserGroupIDs, Store.AppIDsByUserGroupIDs and the two functions of
\* the server that use them.
UserGroupIDs(userID) == {p[2] : p \in {q \in userGroups : q[1] = userID}}
AppIDsByUserGroupIDs(groupIDs) == {p[1] : p \in {q \in appGroups : q[2] \in groupIDs}}
allowedAppIDsForUser(userID) == AppIDsByUserGroupIDs(UserGroupIDs(userID))
userCanAccessApp(userID, appID) == appID \in allowedAppIDsForUser(userID)

Forbidden(msg) == [code |-> 403, error |-> msg]
NoAccess(user, appID) == ~user.IsAdmin /\ ~userCanAccessApp(user.ID, appID)

\* What is recorded of a run: the status values persisted, the executors
\* invoked, the step events (start, ok, slept, failed; abort for a failed sync),
\* the last log given to the log-update callback, what became of the run's
\* secret, the terminal job status the poll loop read, the executor's result.
NoHist == [statuses |-> <<>>, executors |-> <<>>, events |-> <<>>,
           delivered |-> <<>>, secret |-> "none", observed |-> "none",
           returned |-> NoResult]

Init ==
  /\ apps = InitialApps
  /\ keys = (K1 :> "PRIVATE KEY")
  /\ runs = <<>>
  /\ lastRunID = 0
  /\ resp = [code |-> 0]
  /\ task = <<>>
  /\ workspace = {"app-legacy"}
  /\ tmpKeys = {}
  /\ secrets = {}
  /\ jobs = <<>>
  /\ hist = <<>>
  /\ req = NoReq
  /\ appsFile = InitialApps
  /\ InitAuth
  /\ call = NoCall

\* ------------------------------------------------------------ triggerRun
\* The index of the first app of the list with this id, 0 when there is none.
FindApp(list, appID) ==
  IF \E i \in 1..Len(list) : list[i].ID = appID
    THEN CHOOSE i \in 1..Len(list) :
           list[i].ID = appID /\ \A j \in 1..(i - 1) : list[j].ID # appID
    ELSE 0

NewTask(app, key) ==
  [pc |-> "go_start", app |-> app, key |-> key, log |-> <<>>, i |-> 1,
   steps |-> <<>>, err |-> "", expired |-> FALSE, logErr |-> FALSE, cleanup |-> FALSE,
   result |-> NoResult]

\* The responses of triggerRun.
NotFound  == [code |-> 404, error |-> "app not found"]
NoKeyName == [code |-> 400, error |-> "app has no ssh_key_name configured"]
NoKey     == [code |-> 400, error |-> "configured ssh_key_name not found"]
Accepted(runID) == [code |-> 202, run_id |-> runID, status |-> "pending"]

\* A triggerRun that creates the run record before it looks at the key.
triggerRun_CreatesRunFirst(appID, user) ==
  LET idx == FindApp(apps, appID) IN
  /\ lastRunID < MaxRuns
  /\ IF NoAccess(user, appID)
       THEN /\ resp' = Forbidden("user has no access to this app")
            /\ UNCHANGED <<runs, lastRunID, task, hist>>
     ELSE IF idx = 0
       THEN /\ resp' = NotFound
            /\ UNCHANGED <<runs, lastRunID, task, hist>>
     ELSE LET runID == lastRunID + 1 IN
          /\ lastRunID' = runID
          /\ runs' = CreateRun(runs, runID, appID, "", user.Username)
          /\ IF TrimSpace(apps[idx].SSHKeyName) = <<>>
               THEN resp' = NoKeyName /\ UNCHANGED <<task, hist>>
             ELSE IF apps[idx].SSHKeyName \notin DOMAIN keys
               THEN resp' = NoKey /\ UNCHANGED <<task, hist>>
             ELSE /\ task' = (runID :> NewTask(apps[idx], keys[apps[idx].SSHKeyName])) @@ task
                  /\ hist' = (runID :> [NoHist EXCEPT !.statuses = <<"pending">>]) @@ hist
                  /\ resp' = Accepted(runID)
  /\ UNCHANGED <<apps, keys, workspace, tmpKeys, secrets, jobs>>
  /\ UNCHANGED <<req, call, appsFile, authVars>>

\* A triggerRun that writes no response when it has started the goroutine.
triggerRun_NoResponseYet(appID, user) ==
  LET idx == FindApp(apps, appID) IN
  /\ lastRunID < MaxRuns
  /\ IF NoAccess(user, appID)
       THEN /\ resp' = Forbidden("user has no access to this app")
            /\ UNCHANGED <<runs, lastRunID, task, hist>>
     ELSE IF idx = 0
       THEN /\ resp' = NotFound
            /\ UNCHANGED <<runs, lastRunID, task, hist>>
     ELSE IF TrimSpace(apps[idx].SSHKeyName) = <<>>
       THEN /\ resp' = NoKeyName
            /\ UNCHANGED <<runs, lastRunID, task, hist>>
     ELSE IF apps[idx].SSHKeyName \notin DOMAIN keys
       THEN /\ resp' = NoKey
            /\ UNCHANGED <<runs, lastRunID, task, hist>>
     ELSE LET runID == lastRunID + 1 IN
          /\ lastRunID' = runID
          /\ runs' = CreateRun(runs, runID, appID, "", user.Username)
          /\ task' = (runID :> NewTask(apps[idx], keys[apps[idx].SSHKeyName])) @@ task
          /\ hist' = (runID :> [NoHist EXCEPT !.statuses = <<"pending">>]) @@ hist
          /\ UNCHANGED resp
  /\ UNCHANGED <<apps, keys, workspace, tmpKeys, secrets, jobs>>
  /\ UNCHANGED <<req, call, appsFile, authVars>>

\* Server.triggerRun for the user of the request; the store's calls do not fail.  The
\* response does not depend on anything the goroutine does, so the handler
\* is one step up to its response.
triggerRun(appID, user) ==
  LET idx == FindApp(apps, appID) IN
  /\ lastRunID < MaxRuns
  /\ IF NoAccess(user, appID)
       THEN /\ resp' = Forbidden("user has no access to this app")
            /\ UNCHANGED <<runs, lastRunID, task, hist>>
     ELSE IF idx = 0
       THEN /\ resp' = NotFound
            /\ UNCHANGED <<runs, lastRunID, task, hist>>
     ELSE IF TrimSpace(apps[idx].SSHKeyName) = <<>>
       THEN /\ resp' = NoKeyName
            /\ UNCHANGED <<runs, lastRunID, task, hist>>
     ELSE IF apps[idx].SSHKeyName \notin DOMAIN keys
       THEN /\ resp' = NoKey
            /\ UNCHANGED <<runs, lastRunID, task, hist>>
     ELSE LET runID == lastRunID + 1 IN
          /\ lastRunID' = runID
          /\ runs' = CreateRun(runs, runID, appID, "", user.Username)
          /\ task' = (runID :> NewTask(apps[idx], keys[apps[idx].SSHKeyName])) @@ task
          /\ hist' = (runID :> [NoHist EXCEPT !.statuses = <<"pending">>]) @@ hist
          /\ resp' = Accepted(runID)
  /\ UNCHANGED <<apps, keys, workspace, tmpKeys, secrets, jobs>>
  /\ UNCHANGED <<req, call, appsFile, authVars>>

\* ------------------------------------------------- the run's goroutine
Written(tbl, id, h, status) ==
  IF id \in DOMAIN tbl THEN [h EXCEPT !.statuses = Append(@, status)] ELSE h

\* A goroutine that starts its work without writing "running".
GoStart_SkipsRunning(r) ==
  /\ task[r].pc = "go_start"
  /\ task' = [task EXCEPT ![r].pc = "go_choose"]
  /\ UNCHANGED <<apps, keys, runs, lastRunID, resp, workspace, tmpKeys, secrets, jobs, hist>>
  /\ UNCHANGED <<req, call, appsFile, authVars>>

\* go func(): s.store.UpdateRunStatus(runID, "running", "")
GoStart(r) ==
  /\ task[r].pc = "go_start"
  /\ runs' = UpdateRunStatus(runs, r, "running", <<>>)
  /\ hist' = [hist EXCEPT ![r] = Written(runs, r, @, "running")]
  /\ task' = [task EXCEPT ![r].pc = "go_choose"]
  /\ UNCHANGED <<apps, keys, lastRunID, resp, workspace, tmpKeys, secrets, jobs>>
  /\ UNCHANGED <<req, call, appsFile, authVars>>

\* if appUsesK8sJob(appCopy) { runAppAsK8sJob } else { writeTempSSHKey; Run }
GoChoose(r) ==
  /\ task[r].pc = "go_choose"
  /\ IF appUsesK8sJob(task[r].app)
       THEN /\ task' = [task EXCEPT ![r].pc = "k8s_pre"]
            /\ hist' = [hist EXCEPT ![r].executors = Append(@, "k8s")]
            /\ UNCHANGED tmpKeys
       ELSE \E written \in BOOLEAN :
              IF written
                THEN /\ tmpKeys' = tmpKeys \cup {r}
                     /\ task' = [task EXCEPT ![r].pc = "run_mkdir", ![r].cleanup = TRUE]
                     /\ hist' = [hist EXCEPT ![r].executors = Append(@, "local")]
                ELSE /\ task' = [task EXCEPT ![r].pc = "go_finish",
                                   ![r].result = Result(FALSE, <<<<"failed to prepare ssh key">>>>)]
                     /\ UNCHANGED <<tmpKeys, hist>>
  /\ UNCHANGED <<apps, keys, runs, lastRunID, resp, workspace, secrets, jobs>>
  /\ UNCHANGED <<req, call, appsFile, authVars>>

\* status := "success" / "failed"; s.store.UpdateRunStatus(runID, status, result.Log).
\* The goroutine then returns, through cleanupKey() when `defer cleanupKey()` ran.
GoFinish(r) ==
  /\ task[r].pc = "go_finish"
  /\ LET status == IF task[r].result.Success THEN "success" ELSE "failed" IN
     /\ runs' = UpdateRunStatus(runs, r, status, task[r].result.Log)
     /\ hist' = [hist EXCEPT ![r] = Written(runs, r, @, status)]
  /\ task' = [task EXCEPT ![r].pc = IF task[r].cleanup THEN "go_exit" ELSE "done"]
  /\ UNCHANGED <<apps, keys, lastRunID, resp, workspace, tmpKeys, secrets, jobs>>
  /\ UNCHANGED <<req, call, appsFile, authVars>>

\* A goroutine that returns without the deferred cleanupKey().
GoExit_LeavesKey(r) ==
  /\ task[r].pc = "go_exit"
  /\ task[r].cleanup
  /\ task' = [task EXCEPT ![r].pc = "done"]
  /\ UNCHANGED <<apps, keys, runs, lastRunID, resp, workspace, tmpKeys, secrets, jobs, hist>>
  /\ UNCHANGED <<req, call, appsFile, authVars>>

\* The goroutine returns: the deferred cleanupKey() removes the key file.
GoExit(r) ==
  /\ task[r].pc = "go_exit"
  /\ task[r].cleanup
  /\ tmpKeys' = tmpKeys \ {r}
  /\ task' = [task EXCEPT ![r].pc = "done"]
  /\ UNCHANGED <<apps, keys, runs, lastRunID, resp, workspace, secrets, jobs, hist>>
  /\ UNCHANGED <<req, call, appsFile, authVars>>

\* ------------------------------------------- Runner.Run, the local executor
\* onLogUpdate := func(log string) { _ = s.store.UpdateRunLog(runID, log) }
onLogUpdate(tbl, r, log) == UpdateRunLog(tbl, r, log)

Delivered(h, log) == [h EXCEPT !.delivered = log]

\* steps := app.EffectiveSteps(), and the step of the current loop iteration
Steps(r) == task[r].steps
CurStep(r) == Steps(r)[task[r].i]

\* appendLog(line) followed by `return Result{Success: false, Log: log.String()}`
RunAbort(r, line) ==
  LET newlog == Append(task[r].log, line) IN
  /\ task' = [task EXCEPT ![r].log = newlog, ![r].pc = "go_finish",
                          ![r].result = Result(FALSE, newlog)]
  /\ runs' = onLogUpdate(runs, r, newlog)
  /\ hist' = [hist EXCEPT ![r] = [Delivered(@, newlog) EXCEPT
                !.events = Append(@, <<"abort", 0>>), !.returned = Result(FALSE, newlog)]]

\* A Run that logs the failure to create the work directory and goes on.
RunMkdir_IgnoresError(r) ==
  /\ task[r].pc = "run_mkdir"
  /\ \/ /\ task' = [task EXCEPT ![r].pc = "run_sync"]
        /\ UNCHANGED <<runs, hist>>
     \/ LET newlog == Append(task[r].log, SyncErrLine("mkdir work dir")) IN
        /\ task' = [task EXCEPT ![r].log = newlog, ![r].pc = "run_sync"]
        /\ runs' = onLogUpdate(runs, r, newlog)
        /\ hist' = [hist EXCEPT ![r] = [Delivered(@, newlog) EXCEPT
                      !.events = Append(@, <<"abort", 0>>)]]
  /\ UNCHANGED <<apps, keys, lastRunID, resp, workspace, tmpKeys, secrets, jobs>>
  /\ UNCHANGED <<req, call, appsFile, authVars>>

\* os.MkdirAll(r.workDir)
RunMkdir(r) ==
  /\ task[r].pc = "run_mkdir"
  /\ \/ /\ task' = [task EXCEPT ![r].pc = "run_sync"]
        /\ UNCHANGED <<runs, hist>>
     \/ RunAbort(r, SyncErrLine("mkdir work dir"))
  /\ UNCHANGED <<apps, keys, lastRunID, resp, workspace, tmpKeys, secrets, jobs>>
  /\ UNCHANGED <<req, call, appsFile, authVars>>

\* Clone or pull
RunSync(r) ==
  /\ task[r].pc = "run_sync"
  /\ IF task[r].app.ID \notin workspace
       THEN \/ /\ RunAbort(r, SyncErrLine("mkdir app dir"))
               /\ UNCHANGED workspace
            \/ /\ RunAbort(r, SyncErrLine("git clone"))
               /\ UNCHANGED workspace
            \/ /\ workspace' = workspace \cup {task[r].app.ID}
               /\ task' = [task EXCEPT ![r].pc = "run_commit"]
               /\ UNCHANGED <<runs, hist>>
       ELSE \/ /\ RunAbort(r, SyncErrLine("git pull"))
               /\ UNCHANGED workspace
            \/ /\ task' = [task EXCEPT ![r].pc = "run_commit"]
               /\ UNCHANGED <<runs, hist, workspace>>
  /\ UNCHANGED <<apps, keys, lastRunID, resp, tmpKeys, secrets, jobs>>
  /\ UNCHANGED <<req, call, appsFile, authVars>>

\* The trimmed output of `git rev-parse HEAD`, empty when it fails.
Commits == {"", "abc123"}

\* commit, _ := r.output(...); appendLog("commit: %s", ...); steps := app.EffectiveSteps()
RunCommit(r) ==
  /\ task[r].pc = "run_commit"
  /\ \E sha \in Commits :
       LET newlog == Append(task[r].log, CommitLine(sha)) IN
       /\ task' = [task EXCEPT ![r].log = newlog, ![r].pc = "run_step", ![r].i = 1,
                               ![r].steps = EffectiveSteps(task[r].app)]
       /\ runs' = onLogUpdate(runs, r, newlog)
       /\ hist' = [hist EXCEPT ![r] = Delivered(@, newlog)]
  /\ UNCHANGED <<apps, keys, lastRunID, resp, workspace, tmpKeys, secrets, jobs>>
  /\ UNCHANGED <<req, call, appsFile, authVars>>

\* The head of `for _, step := range steps`: the step's boundary marker, or,
\* after the last step, the completion marker and `return Result{Success: true}`.
RunStep(r) ==
  /\ task[r].pc = "run_step"
  /\ IF task[r].i <= Len(Steps(r))
       THEN LET newlog == Append(task[r].log, StepMarker(CurStep(r).Name)) IN
            /\ task' = [task EXCEPT ![r].log = newlog, ![r].pc = "run_exec"]
            /\ runs' = onLogUpdate(runs, r, newlog)
            /\ hist' = [hist EXCEPT ![r] = [Delivered(@, newlog) EXCEPT
                          !.events = Append(@, <<"start", task[r].i>>)]]
       ELSE LET newlog == Append(task[r].log, CompletedLine) IN
            /\ task' = [task EXCEPT ![r].log = newlog, ![r].pc = "go_finish",
                                    ![r].result = Result(TRUE, newlog)]
            /\ runs' = onLogUpdate(runs, r, newlog)
            /\ hist' = [hist EXCEPT ![r] = [Delivered(@, newlog) EXCEPT
                          !.returned = Result(TRUE, newlog)]]
  /\ UNCHANGED <<apps, keys, lastRunID, resp, workspace, tmpKeys, secrets, jobs>>
  /\ UNCHANGED <<req, call, appsFile, authVars>>

\* The step failed: `if onLogUpdate != nil { onLogUpdate(log.String()) }`
RunStepError(r, newlog, err) ==
  /\ task' = [task EXCEPT ![r].log = newlog, ![r].err = err, ![r].pc = "run_failed"]
  /\ runs' = onLogUpdate(runs, r, newlog)
  /\ hist' = [hist EXCEPT ![r] = Delivered(@, newlog)]

\* r.runStepWithLog(stepEnv, appWorkDir, app, step, &log)
RunExec(r) ==
  /\ task[r].pc = "run_exec"
  /\ LET how == runStepWithLog(task[r].app, CurStep(r)) IN
     IF how = "nil"
       THEN /\ task' = [task EXCEPT ![r].pc = "run_ok"]
            /\ UNCHANGED <<runs, hist>>
     ELSE IF how = "run"
       THEN LET newlog == Append(task[r].log, OutputLine) IN
            \/ /\ task' = [task EXCEPT ![r].log = newlog, ![r].pc = "run_ok"]
               /\ UNCHANGED <<runs, hist>>
            \/ RunStepError(r, newlog, "exit status 1")
     ELSE RunStepError(r, task[r].log, how)
  /\ UNCHANGED <<apps, keys, lastRunID, resp, workspace, tmpKeys, secrets, jobs>>
  /\ UNCHANGED <<req, call, appsFile, authVars>>

\* A step loop that logs the failure and goes on to the next step.
RunFailed_Continues(r) ==
  /\ task[r].pc = "run_failed"
  /\ LET newlog == Append(task[r].log, StepFailedLine(CurStep(r).Name, task[r].err)) IN
     /\ task' = [task EXCEPT ![r].log = newlog, ![r].pc = "run_step", ![r].i = @ + 1]
     /\ runs' = onLogUpdate(runs, r, newlog)
     /\ hist' = [hist EXCEPT ![r] = [Delivered(@, newlog) EXCEPT
                   !.events = Append(@, <<"failed", task[r].i>>)]]
  /\ UNCHANGED <<apps, keys, lastRunID, resp, workspace, tmpKeys, secrets, jobs>>
  /\ UNCHANGED <<req, call, appsFile, authVars>>

\* appendLog("%s step failed: %v", ...); return Result{Success: false, ...}
RunFailed(r) ==
  /\ task[r].pc = "run_failed"
  /\ LET newlog == Append(task[r].log, StepFailedLine(CurStep(r).Name, task[r].err)) IN
     /\ task' = [task EXCEPT ![r].log = newlog, ![r].pc = "go_finish",
                             ![r].result = Result(FALSE, newlog)]
     /\ runs' = onLogUpdate(runs, r, newlog)
     /\ hist' = [hist EXCEPT ![r] = [Delivered(@, newlog) EXCEPT
                   !.events = Append(@, <<"failed", task[r].i>>),
                   !.returned = Result(FALSE, newlog)]]
  /\ UNCHANGED <<apps, keys, lastRunID, resp, workspace, tmpKeys, secrets, jobs>>
  /\ UNCHANGED <<req, call, appsFile, authVars>>

\* A step loop that starts the next step without the post-step sleep.
RunOK_SkipsSleep(r) ==
  /\ task[r].pc = "run_ok"
  /\ LET newlog == Append(task[r].log, StepOKLine(CurStep(r).Name)) IN
     /\ task' = [task EXCEPT ![r].log = newlog, ![r].pc = "run_step", ![r].i = @ + 1]
     /\ runs' = onLogUpdate(runs, r, newlog)
     /\ hist' = [hist EXCEPT ![r] = [Delivered(@, newlog) EXCEPT
                   !.events = Append(@, <<"ok", task[r].i>>)]]
  /\ UNCHANGED <<apps, keys, lastRunID, resp, workspace, tmpKeys, secrets, jobs>>
  /\ UNCHANGED <<req, call, appsFile, authVars>>

\* appendLog("%s step OK", step.Name)
RunOK(r) ==
  /\ task[r].pc = "run_ok"
  /\ LET newlog == Append(task[r].log, StepOKLine(CurStep(r).Name)) IN
     /\ task' = IF CurStep(r).SleepSec > 0
                  THEN [task EXCEPT ![r].log = newlog, ![r].pc = "run_sleepmsg"]
                  ELSE [task EXCEPT ![r].log = newlog, ![r].pc = "run_step", ![r].i = @ + 1]
     /\ runs' = onLogUpdate(runs, r, newlog)
     /\ hist' = [hist EXCEPT ![r] = [Delivered(@, newlog) EXCEPT
                   !.events = Append(@, <<"ok", task[r].i>>)]]
  /\ UNCHANGED <<apps, keys, lastRunID, resp, workspace, tmpKeys, secrets, jobs>>
  /\ UNCHANGED <<req, call, appsFile, authVars>>

\* An appendLog that starts a new buffer instead of adding to the old one.
RunSleepMsg_ResetsLog(r) ==
  /\ task[r].pc = "run_sleepmsg"
  /\ LET newlog == <<SleepingLine(CurStep(r).SleepSec, CurStep(r).Name)>> IN
     /\ task' = [task EXCEPT ![r].log = newlog, ![r].pc = "run_sleep"]
     /\ runs' = onLogUpdate(runs, r, newlog)
     /\ hist' = [hist EXCEPT ![r] = Delivered(@, newlog)]
  /\ UNCHANGED <<apps, keys, lastRunID, resp, workspace, tmpKeys, secrets, jobs>>
  /\ UNCHANGED <<req, call, appsFile, authVars>>

\* appendLog("Sleeping %ds after %s...", ...)
RunSleepMsg(r) ==
  /\ task[r].pc = "run_sleepmsg"
  /\ LET newlog == Append(task[r].log, SleepingLine(CurStep(r).SleepSec, CurStep(r).Name)) IN
     /\ task' = [task EXCEPT ![r].log = newlog, ![r].pc = "run_sleep"]
     /\ runs' = onLogUpdate(runs, r, newlog)
     /\ hist' = [hist EXCEPT ![r] = Delivered(@, newlog)]
  /\ UNCHANGED <<apps, keys, lastRunID, resp, workspace, tmpKeys, secrets, jobs>>
  /\ UNCHANGED <<req, call, appsFile, authVars>>

\* time.Sleep(...); onLogUpdate(log.String())
RunSleep(r) ==
  /\ task[r].pc = "run_sleep"
  /\ task' = [task EXCEPT ![r].pc = "run_step", ![r].i = @ + 1]
  /\ runs' = onLogUpdate(runs, r, task[r].log)
  /\ hist' = [hist EXCEPT ![r] = [Delivered(@, task[r].log) EXCEPT
                !.events = Append(@, <<"slept", task[r].i>>)]]
  /\ UNCHANGED <<apps, keys, lastRunID, resp, workspace, tmpKeys, secrets, jobs>>
  /\ UNCHANGED <<req, call, appsFile, authVars>>

\* --------------------------------- runAppAsK8sJob, the cluster executor
\* In a cluster run task[r].log is lastLog.
NewJob(script) ==
  [script |-> script, pc |-> 1, podLog |-> <<>>,
   pod |-> "running", succeeded |-> 0, failed |-> 0]

\* `return pipeline.Result{...}` before the deferred delete is registered.
K8sReturn(r, result) ==
  /\ task' = [task EXCEPT ![r].pc = "go_finish", ![r].result = result]
  /\ hist' = [hist EXCEPT ![r].returned = result]

\* `return pipeline.Result{...}` after `defer kubectlDeleteResource(...)`.
K8sReturnDeferred(r, result) ==
  /\ task' = [task EXCEPT ![r].pc = "k8s_defer", ![r].result = result]
  /\ hist' = [hist EXCEPT ![r].returned = result]

\* The poll loop read a terminal job status:
\* `return pipeline.Result{Success: success, Log: lastLog}`
K8sObserved(r, success) ==
  /\ task' = [task EXCEPT ![r].pc = "k8s_defer", ![r].result = Result(success, task[r].log)]
  /\ hist' = [hist EXCEPT ![r].returned = Result(success, task[r].log),
                          ![r].observed = IF success THEN "succeeded" ELSE "failed"]

\* A timeout branch that returns lastLog as it is.
K8sTimedOut_NoMarker(r) ==
  K8sReturnDeferred(r, Result(FALSE, task[r].log))

\* `case <-ctx.Done()`: the timeout marker is added to lastLog
K8sTimedOut(r) ==
  K8sReturnDeferred(r, Result(FALSE, TimedOutLog(task[r].log)))

\* A runAppAsK8sJob that applies the secret before it looks at the settings.
K8sPre_SecretFirst(r) ==
  /\ task[r].pc = "k8s_pre"
  /\ \/ /\ K8sReturn(r, Result(FALSE, <<<<"failed to create ssh secret">>>>))
        /\ UNCHANGED secrets
     \/ /\ secrets' = secrets \cup {r}
        /\ task' = [task EXCEPT ![r].pc = "k8s_job"]
        /\ hist' = [hist EXCEPT ![r].secret = "created"]
  /\ UNCHANGED <<apps, keys, runs, lastRunID, resp, workspace, tmpKeys, jobs>>
  /\ UNCHANGED <<req, call, appsFile, authVars>>

\* The precondition checks and kubectlApplyYAML(secretYAML).
K8sPre(r) ==
  /\ task[r].pc = "k8s_pre"
  /\ LET app == task[r].app IN
     IF TrimSpace(app.K8sNamespace) = <<>>
       THEN K8sReturn(r, Result(FALSE, <<<<"k8s namespace is required">>>>)) /\ UNCHANGED secrets
     ELSE IF TrimSpace(app.K8sServiceAccount) = <<>>
       THEN K8sReturn(r, Result(FALSE, <<<<"k8s service account is required">>>>)) /\ UNCHANGED secrets
     ELSE IF TrimSpace(app.K8sRunnerImage) = <<>>
       THEN K8sReturn(r, Result(FALSE, <<<<"k8s runner image is required">>>>)) /\ UNCHANGED secrets
     ELSE IF Len(buildK8sJobScript(app)) = 0
       THEN K8sReturn(r, Result(FALSE, <<<<"empty k8s job script">>>>)) /\ UNCHANGED secrets
     ELSE \/ /\ K8sReturn(r, Result(FALSE, <<<<"failed to create ssh secret">>>>))
             /\ UNCHANGED secrets
          \/ /\ secrets' = secrets \cup {r}
             /\ task' = [task EXCEPT ![r].pc = "k8s_job"]
             /\ hist' = [hist EXCEPT ![r].secret = "created"]
  /\ UNCHANGED <<apps, keys, runs, lastRunID, resp, workspace, tmpKeys, jobs>>
  /\ UNCHANGED <<req, call, appsFile, authVars>>

\* A runAppAsK8sJob that registers the deferred delete after creating the job.
K8sApplyJob_ReturnsBeforeDefer(r) ==
  /\ task[r].pc = "k8s_job"
  /\ \/ /\ K8sReturn(r, Result(FALSE, <<<<"failed to create job">>>>))
        /\ UNCHANGED jobs
     \/ /\ jobs' = (r :> NewJob(buildK8sJobScript(task[r].app))) @@ jobs
        /\ task' = [task EXCEPT ![r].pc = "k8s_logs", ![r].log = <<>>, ![r].expired = FALSE]
        /\ UNCHANGED hist
  /\ UNCHANGED <<apps, keys, runs, lastRunID, resp, workspace, tmpKeys, secrets>>
  /\ UNCHANGED <<req, call, appsFile, authVars>>

\* kubectlApplyYAML(jobYAML); ctx := context.WithTimeout(...); lastLog := ""
K8sApplyJob(r) ==
  /\ task[r].pc = "k8s_job"
  /\ \/ /\ K8sReturnDeferred(r, Result(FALSE, <<<<"failed to create job">>>>))
        /\ UNCHANGED jobs
     \/ /\ jobs' = (r :> NewJob(buildK8sJobScript(task[r].app))) @@ jobs
        /\ task' = [task EXCEPT ![r].pc = "k8s_logs", ![r].log = <<>>, ![r].expired = FALSE]
        /\ UNCHANGED hist
  /\ UNCHANGED <<apps, keys, runs, lastRunID, resp, workspace, tmpKeys, secrets>>
  /\ UNCHANGED <<req, call, appsFile, authVars>>

\* A poll loop that takes over the log without looking at the error of the
\* fetch: kubectlJobLogs returns "" with its error.
K8sLogs_IgnoresErr(r) ==
  /\ task[r].pc = "k8s_logs"
  /\ \E err \in BOOLEAN :
       LET log == IF err THEN <<>> ELSE jobs[r].podLog IN
       IF log # task[r].log
         THEN /\ task' = [task EXCEPT ![r].log = log, ![r].logErr = err, ![r].pc = "k8s_done"]
              /\ runs' = onLogUpdate(runs, r, log)
              /\ hist' = [hist EXCEPT ![r] = Delivered(@, log)]
         ELSE /\ task' = [task EXCEPT ![r].logErr = err, ![r].pc = "k8s_done"]
              /\ UNCHANGED <<runs, hist>>
  /\ UNCHANGED <<apps, keys, lastRunID, resp, workspace, tmpKeys, secrets, jobs>>
  /\ UNCHANGED <<req, call, appsFile, authVars>>

\* log, err := kubectlJobLogs(namespace, jobName) and the update of lastLog;
\* logErr is whether this fetch of the iteration failed.
K8sLogs(r) ==
  /\ task[r].pc = "k8s_logs"
  /\ \E err \in BOOLEAN :
       IF ~err /\ jobs[r].podLog # task[r].log
         THEN /\ task' = [task EXCEPT ![r].log = jobs[r].podLog, ![r].logErr = err,
                                      ![r].pc = "k8s_done"]
              /\ runs' = onLogUpdate(runs, r, jobs[r].podLog)
              /\ hist' = [hist EXCEPT ![r] = Delivered(@, jobs[r].podLog)]
         ELSE /\ task' = [task EXCEPT ![r].logErr = err, ![r].pc = "k8s_done"]
              /\ UNCHANGED <<runs, hist>>
  /\ UNCHANGED <<apps, keys, lastRunID, resp, workspace, tmpKeys, secrets, jobs>>
  /\ UNCHANGED <<req, call, appsFile, authVars>>

\* A kubectlJobDone that takes any non-zero count for a success.
kubectlJobDone_AnyCount(job) ==
  IF job.succeeded # 0 \/ job.failed # 0 THEN <<TRUE, TRUE>> ELSE <<FALSE, FALSE>>

\* server.kubectlJobDone: <<done, success>> from the job's status counts
kubectlJobDone(job) ==
  IF job.succeeded # 0 THEN <<TRUE, TRUE>>
  ELSE IF job.failed # 0 THEN <<TRUE, FALSE>>
  ELSE <<FALSE, FALSE>>

\* A poll loop whose select has no <-ctx.Done() case.
K8sDone_IgnoresDeadline(r) ==
  /\ task[r].pc = "k8s_done"
  /\ \E err \in BOOLEAN :
       LET d == kubectlJobDone(jobs[r]) IN
       IF ~err /\ d[1]
         THEN K8sObserved(r, d[2])
       ELSE /\ task' = [task EXCEPT ![r].pc = "k8s_logs"]
            /\ UNCHANGED hist
  /\ UNCHANGED <<apps, keys, runs, lastRunID, resp, workspace, tmpKeys, secrets, jobs>>
  /\ UNCHANGED <<req, call, appsFile, authVars>>

\* done, success, err := kubectlJobDone(...) and the select: <-ctx.Done() when
\* the deadline has passed, otherwise <-time.After(2 * time.Second).
K8sDone(r) ==
  /\ task[r].pc = "k8s_done"
  /\ \E err \in BOOLEAN :
       LET d == kubectlJobDone(jobs[r]) IN
       IF ~err /\ d[1]
         THEN K8sObserved(r, d[2])
       ELSE IF task[r].expired
         THEN K8sTimedOut(r)
       ELSE /\ task' = [task EXCEPT ![r].pc = "k8s_logs"]
            /\ UNCHANGED hist
  /\ UNCHANGED <<apps, keys, runs, lastRunID, resp, workspace, tmpKeys, secrets, jobs>>
  /\ UNCHANGED <<req, call, appsFile, authVars>>

\* k8sRunTimeout (30 minutes) after the context was created, its deadline passes.
K8sDeadline(r) ==
  /\ task[r].pc \in {"k8s_logs", "k8s_done"}
  /\ ~task[r].expired
  /\ task' = [task EXCEPT ![r].expired = TRUE]
  /\ UNCHANGED <<apps, keys, runs, lastRunID, resp, workspace, tmpKeys, secrets, jobs, hist>>
  /\ UNCHANGED <<req, call, appsFile, authVars>>

\* defer func() { _ = kubectlDeleteResource(namespace, "secret", secretName) }()
K8sDefer(r) ==
  /\ task[r].pc = "k8s_defer"
  /\ \E deleted \in BOOLEAN :
       /\ secrets' = IF deleted THEN secrets \ {r} ELSE secrets
       /\ hist' = [hist EXCEPT ![r].secret = IF deleted THEN "deleted" ELSE "delete failed"]
  /\ task' = [task EXCEPT ![r].pc = "go_finish"]
  /\ UNCHANGED <<apps, keys, runs, lastRunID, resp, workspace, tmpKeys, jobs>>
  /\ UNCHANGED <<req, call, appsFile, authVars>>

\* ------------------------------------------------ the job's pod (cluster)
JobEvent(line) ==
  IF line.step = 0 THEN <<>>
  ELSE IF line.op = "echo" /\ IsStepMarker(line.args) THEN <<<<"start", line.step>>>>
  ELSE IF line.op = "echo" /\ IsStepOK(line.args) THEN <<<<"ok", line.step>>>>
  ELSE IF line.op = "sleep" THEN <<<<"slept", line.step>>>>
  ELSE <<<<"failed", line.step>>>>

\* The lines from pc on that take no time and cannot fail (echo, set, cd, ...)
\* run at once: the position, pod log and step events after them.
RECURSIVE RunQuick(_, _, _, _)
RunQuick(script, pc, podLog, events) ==
  IF pc > Len(script) \/ script[pc].op \in FallibleOps \cup {"sleep"}
    THEN [pc |-> pc, podLog |-> podLog, events |-> events]
  ELSE IF script[pc].op = "echo"
    THEN RunQuick(script, pc + 1, Append(podLog, script[pc].args), events \o JobEvent(script[pc]))
  ELSE RunQuick(script, pc + 1, podLog, events)

\* /bin/sh -c <script> under `set -eu`: the pod runs on to the end of the next
\* line that starts a program or sleeps; a program that exits non-zero ends
\* the pod, and so does the end of the script.  With backoffLimit 0 and
\* restartPolicy Never the pod's exit is the job's .status.succeeded or
\* .status.failed.
JobRun(r) ==
  /\ jobs[r].pod = "running"
  /\ LET job == jobs[r]
         q == RunQuick(job.script, job.pc, job.podLog, <<>>) IN
     IF q.pc > Len(job.script)
       THEN /\ jobs' = [jobs EXCEPT ![r] = [job EXCEPT !.pc = q.pc, !.podLog = q.podLog,
                                               !.pod = "exited", !.succeeded = 1]]
            /\ hist' = [hist EXCEPT ![r].events = @ \o q.events]
     ELSE IF job.script[q.pc].op = "sleep"
       THEN /\ jobs' = [jobs EXCEPT ![r] = [job EXCEPT !.pc = q.pc + 1, !.podLog = q.podLog]]
            /\ hist' = [hist EXCEPT ![r].events = @ \o q.events \o JobEvent(job.script[q.pc])]
     ELSE LET out == Append(q.podLog, OutputLine) IN
          \/ /\ jobs' = [jobs EXCEPT ![r] = [job EXCEPT !.pc = q.pc + 1, !.podLog = out]]
             /\ hist' = [hist EXCEPT ![r].events = @ \o q.events]
          \/ /\ jobs' = [jobs EXCEPT ![r] = [job EXCEPT !.pc = q.pc, !.podLog = out,
                                                !.pod = "exited", !.failed = 1]]
             /\ hist' = [hist EXCEPT ![r].events = @ \o q.events \o JobEvent(job.script[q.pc])]
  /\ UNCHANGED <<apps, keys, runs, lastRunID, resp, task, workspace, tmpKeys, secrets>>
  /\ UNCHANGED <<req, call, appsFile, authVars>>

\* ------------------------------------- createApp, updateApp, deleteApp
\* The loop of validateAndNormalizeApp without the test of sleep_sec.
RECURSIVE StepError_NoSleepTest(_, _, _)
StepError_NoSleepTest(app, steps, i) ==
  IF i > Len(steps) THEN ""
  ELSE LET kind == Kind(steps[i]) IN
       IF kind = ""
         THEN "each step must define exactly one of: cmd, file, script, k8s_deploy"
       ELSE IF kind = "k8s_deploy" /\ app.DeployMode = KUBECTL /\ app.DeployManifestPath = <<>>
         THEN "deploy_manifest_path is required when deploy_mode=kubectl and step uses k8s_deploy"
       ELSE IF kind = "k8s_deploy" /\ app.DeployMode = HELM /\ app.HelmChart = <<>>
         THEN "helm_chart is required when deploy_mode=helm and step uses k8s_deploy"
       ELSE IF kind = "k8s_deploy" /\ app.DeployMode \notin {KUBECTL, HELM}
         THEN "deploy_mode must be kubectl or helm when step uses k8s_deploy"
       ELSE IF kind = "k8s_deploy" /\ app.K8sNamespace = <<>>
         THEN "k8s_namespace is required when step uses k8s_deploy"
       ELSE IF kind = "k8s_deploy" /\ app.K8sServiceAccount = <<>>
         THEN "k8s_service_account is required when step uses k8s_deploy"
       ELSE IF kind = "k8s_deploy" /\ app.K8sRunnerImage = <<>>
         THEN "k8s_runner_image is required when step uses k8s_deploy"
       ELSE StepError_NoSleepTest(app, steps, i + 1)

\* The first error of the loop of validateAndNormalizeApp over the
\* normalized steps from step i on, "" when there is none.
RECURSIVE StepError(_, _, _)
StepError(app, steps, i) ==
  IF i > Len(steps) THEN ""
  ELSE LET kind == Kind(steps[i]) IN
       IF kind = ""
         THEN "each step must define exactly one of: cmd, file, script, k8s_deploy"
       ELSE IF kind = "k8s_deploy" /\ app.DeployMode = KUBECTL /\ app.DeployManifestPath = <<>>
         THEN "deploy_manifest_path is required when deploy_mode=kubectl and step uses k8s_deploy"
       ELSE IF kind = "k8s_deploy" /\ app.DeployMode = HELM /\ app.HelmChart = <<>>
         THEN "helm_chart is required when deploy_mode=helm and step uses k8s_deploy"
       ELSE IF kind = "k8s_deploy" /\ app.DeployMode \notin {KUBECTL, HELM}
         THEN "deploy_mode must be kubectl or helm when step uses k8s_deploy"
       ELSE IF kind = "k8s_deploy" /\ app.K8sNamespace = <<>>
         THEN "k8s_namespace is required when step uses k8s_deploy"
       ELSE IF kind = "k8s_deploy" /\ app.K8sServiceAccount = <<>>
         THEN "k8s_service_account is required when step uses k8s_deploy"
       ELSE IF kind = "k8s_deploy" /\ app.K8sRunnerImage = <<>>
         THEN "k8s_runner_image is required when step uses k8s_deploy"
       ELSE IF steps[i].SleepSec < 0 \/ steps[i].SleepSec > MaxSleepSec
         THEN "each step sleep_sec must be between 0 and 3600"
       ELSE StepError(app, steps, i + 1)

\* A validateAndNormalizeApp that does not trim the deploy settings.
validateAndNormalizeApp_NoTrim(app, requireSSHKey) ==
  LET trimmed == [app EXCEPT
                    !.SSHKeyName = TrimSpace(@),
                    !.DeployMode = TrimSpace(ToLower(@)),
                    !.Branch = IF @ = "" THEN "main" ELSE @]
      normalized == NormalizeAppSteps(trimmed)
      err == IF requireSSHKey /\ trimmed.SSHKeyName = <<>>
               THEN "ssh_key_name is required"
             ELSE IF trimmed.SSHKeyName # <<>> /\ trimmed.SSHKeyName \notin DOMAIN keys
               THEN "ssh_key_name not found"
             ELSE IF Len(normalized.Steps) = 0
               THEN "at least one step is required"
             ELSE StepError(trimmed, normalized.Steps, 1)
  IN [err |-> err, app |-> normalized]

\* Server.validateAndNormalizeApp: the error ("" for nil) and the app that
\* *app holds when it returns nil.
validateAndNormalizeApp(app, requireSSHKey) ==
  LET trimmed == [app EXCEPT
                    !.SSHKeyName = TrimSpace(@),
                    !.DeployMode = TrimSpace(ToLower(@)),
                    !.K8sNamespace = TrimSpace(@),
                    !.K8sServiceAccount = TrimSpace(@),
                    !.K8sRunnerImage = TrimSpace(@),
                    !.DeployManifestPath = TrimSpace(@),
                    !.HelmChart = TrimSpace(@),
                    !.HelmValuesPath = TrimSpace(@),
                    !.Branch = IF @ = "" THEN "main" ELSE @]
      normalized == NormalizeAppSteps(trimmed)
      err == IF requireSSHKey /\ trimmed.SSHKeyName = <<>>
               THEN "ssh_key_name is required"
             ELSE IF trimmed.SSHKeyName # <<>> /\ trimmed.SSHKeyName \notin DOMAIN keys
               THEN "ssh_key_name not found"
             ELSE IF Len(normalized.Steps) = 0
               THEN "at least one step is required"
             ELSE StepError(trimmed, normalized.Steps, 1)
  IN [err |-> err, app |-> normalized]

BadRequest(msg) == [code |-> 400, error |-> msg]
ServerError == [code |-> 500, error |-> "internal"]

\* The ids generateUniqueAppIDLocked can return: "app-" and 16 hex digits,
\* different from the id of every app of the list.
NewAppIDs == {"app-00000000000000a1"}

\* A createApp that takes the generated id without looking at the list.
createApp_AnyID(body) ==
  /\ Len(apps) < MaxApps
  /\ IF body.Name = "" \/ body.Repo = ""
       THEN resp' = BadRequest("name and repo are required") /\ UNCHANGED <<apps, appsFile>>
     ELSE LET v == validateAndNormalizeApp(body, TRUE) IN
          IF v.err # ""
            THEN resp' = BadRequest(v.err) /\ UNCHANGED <<apps, appsFile>>
          ELSE \/ resp' = ServerError /\ UNCHANGED <<apps, appsFile>>
               \/ \E id \in NewAppIDs :
                    /\ apps' = Append(apps, [v.app EXCEPT !.ID = id])
                    /\ appsFile' = apps'
                    /\ resp' = [code |-> 201, app |-> [v.app EXCEPT !.ID = id]]
  /\ UNCHANGED <<keys, runs, lastRunID, task, workspace, tmpKeys, secrets, jobs, hist>>
  /\ UNCHANGED <<req, call, authVars>>

\* Server.createApp by an admin, with the decoded body.  generateAppID and
\* config.SaveApps can fail (response 500); a SaveApps that fails leaves the
\* file as it was.
createApp(body) ==
  /\ Len(apps) < MaxApps
  /\ IF body.Name = "" \/ body.Repo = ""
       THEN resp' = BadRequest("name and repo are required") /\ UNCHANGED <<apps, appsFile>>
     ELSE LET v == validateAndNormalizeApp(body, TRUE) IN
          IF v.err # ""
            THEN resp' = BadRequest(v.err) /\ UNCHANGED <<apps, appsFile>>
          ELSE \/ resp' = ServerError /\ UNCHANGED <<apps, appsFile>>
               \/ \E id \in NewAppIDs :
                    /\ FindApp(apps, id) = 0
                    /\ apps' = Append(apps, [v.app EXCEPT !.ID = id])
                    /\ appsFile' = apps'
                    /\ resp' = [code |-> 201, app |-> [v.app EXCEPT !.ID = id]]
  /\ UNCHANGED <<keys, runs, lastRunID, task, workspace, tmpKeys, secrets, jobs, hist>>
  /\ UNCHANGED <<req, call, authVars>>

\* Server.updateApp for the user of the request, with the decoded body.
\* s.apps[i] is assigned before config.SaveApps, whose failure is answered 500.
updateApp(user, appID, body) ==
  LET idx  == FindApp(apps, appID)
      app  == [body EXCEPT !.ID = appID,
                 !.SSHKeyName = IF idx # 0 /\ TrimSpace(@) = <<>>
                                  THEN apps[idx].SSHKeyName ELSE @]
      v    == validateAndNormalizeApp(app, FALSE) IN
  /\ IF NoAccess(user, appID)
       THEN resp' = Forbidden("user has no access to this app") /\ UNCHANGED <<apps, appsFile>>
     ELSE IF v.err # ""
       THEN resp' = BadRequest(v.err) /\ UNCHANGED <<apps, appsFile>>
     ELSE IF idx = 0
       THEN resp' = NotFound /\ UNCHANGED <<apps, appsFile>>
     ELSE /\ apps' = [apps EXCEPT ![idx] = v.app]
          /\ \/ resp' = [code |-> 200, app |-> v.app] /\ appsFile' = apps'
             \/ resp' = ServerError /\ UNCHANGED appsFile
  /\ UNCHANGED <<keys, runs, lastRunID, task, workspace, tmpKeys, secrets, jobs, hist>>
  /\ UNCHANGED <<req, call, authVars>>

\* Store.DeleteRunsByAppID: DELETE FROM runs WHERE app_id = ?
DeleteRunsByAppID(tbl, appID) ==
  [id \in {x \in DOMAIN tbl : tbl[x].app_id # appID} |-> tbl[id]]

\* Server.deleteApp by an admin, all of it under appsMu.Lock().  SaveApps
\* can fail, and so can DeleteRunsByAppID after SaveApps has written the file;
\* both are answered 500.
deleteApp(appID) ==
  LET newApps == SelectSeq(apps, LAMBDA a : a.ID # appID) IN
  /\ IF Len(newApps) = Len(apps)
       THEN resp' = NotFound /\ UNCHANGED <<apps, runs, appsFile>>
       ELSE \/ resp' = ServerError /\ UNCHANGED <<apps, runs, appsFile>>
            \/ /\ appsFile' = newApps
               /\ resp' = ServerError
               /\ UNCHANGED <<apps, runs>>
            \/ /\ appsFile' = newApps
               /\ runs' = DeleteRunsByAppID(runs, appID)
               /\ apps' = newApps
               /\ resp' = [code |-> 204]
  /\ UNCHANGED <<keys, lastRunID, task, workspace, tmpKeys, secrets, jobs, hist>>
  /\ UNCHANGED <<req, call, authVars>>

\* ------------------------------------------------ calls of EffectiveSteps
\* An EffectiveSteps that filters in place (out := a.Steps[:0]): the kept
\* steps overwrite the head of the array a.Steps shares with the caller.
EffectiveStepsCall_InPlace(c) ==
  LET out == EffectiveSteps(c.app) IN
  [c EXCEPT !.out = Append(@, out),
            !.app.Steps = [i \in DOMAIN @ |-> IF i <= Len(out) THEN out[i] ELSE @[i]]]

\* One call of a.EffectiveSteps() on the app value of `call`: the value
\* returned is recorded; the method reads a.Steps and the legacy fields and
\* builds its result in a slice of its own, so the app is left as it is.
EffectiveStepsCall(c) ==
  [c EXCEPT !.out = Append(@, EffectiveSteps(c.app))]

CallEffectiveSteps ==
  /\ call.app # <<>>
  /\ Len(call.out) < MaxCalls
  /\ call' = EffectiveStepsCall(call)
  /\ UNCHANGED <<apps, keys, runs, lastRunID, resp, task, workspace, tmpKeys,
                 secrets, jobs, hist, req, appsFile, authVars>>

\* ---------------------------------------------------------- specification
TaskStep(r) ==
  \/ GoStart(r) \/ GoChoose(r) \/ GoFinish(r) \/ GoExit(r)
  \/ RunMkdir(r) \/ RunSync(r) \/ RunCommit(r) \/ RunStep(r) \/ RunExec(r)
  \/ RunFailed(r) \/ RunOK(r) \/ RunSleepMsg(r) \/ RunSleep(r)
  \/ K8sPre(r) \/ K8sApplyJob(r) \/ K8sLogs(r) \/ K8sDone(r) \/ K8sDefer(r)

Next ==
  \/ \E appID \in AppIDs, user \in Users : triggerRun(appID, user)
  \/ \E r \in DOMAIN task : GoStart(r)
  \/ \E r \in DOMAIN task : GoChoose(r)
  \/ \E r \in DOMAIN task : GoFinish(r)
  \/ \E r \in DOMAIN task : GoExit(r)
  \/ \E r \in DOMAIN task : RunMkdir(r)
  \/ \E r \in DOMAIN task : RunSync(r)
  \/ \E r \in DOMAIN task : RunCommit(r)
  \/ \E r \in DOMAIN task : RunStep(r)
  \/ \E r \in DOMAIN task : RunExec(r)
  \/ \E r \in DOMAIN task : RunFailed(r)
  \/ \E r \in DOMAIN task : RunOK(r)
  \/ \E r \in DOMAIN task : RunSleepMsg(r)
  \/ \E r \in DOMAIN task : RunSleep(r)
  \/ \E r \in DOMAIN task : K8sPre(r)
  \/ \E r \in DOMAIN task : K8sApplyJob(r)
  \/ \E r \in DOMAIN task : K8sLogs(r)
  \/ \E r \in DOMAIN task : K8sDone(r)
  \/ \E r \in DOMAIN task : K8sDefer(r)
  \/ \E r \in DOMAIN task : K8sDeadline(r)
  \/ \E r \in DOMAIN jobs : JobRun(r)

Spec == Init /\ [][Next]_vars

\* Every goroutine that can take a step eventually takes one (the Go scheduler,
\* and every subprocess it waits for returns).
FairSpec ==
  Spec /\ \A r \in 1..MaxRuns : /\ WF_vars(r \in DOMAIN task /\ TaskStep(r))
                                /\ WF_vars(r \in DOMAIN task /\ K8sDeadline(r))

\* ------------------------- specification with deleteApp beside triggerRun
\* triggerRun up to the key lookup: the app is looked up under appsMu.RLock,
\* which is released before the ssh key is read and the run is created.  The
\* pointer the lookup keeps refers to the array the list had at that moment;
\* deleteApp builds a new array and leaves that one as it was.
triggerRunLookup(appID, user) ==
  LET idx == FindApp(apps, appID) IN
  /\ req = NoReq
  /\ lastRunID < MaxRuns
  /\ IF NoAccess(user, appID)
       THEN resp' = Forbidden("user has no access to this app") /\ UNCHANGED req
     ELSE IF idx = 0
       THEN resp' = NotFound /\ UNCHANGED req
     ELSE IF TrimSpace(apps[idx].SSHKeyName) = <<>>
       THEN resp' = NoKeyName /\ UNCHANGED req
     ELSE IF apps[idx].SSHKeyName \notin DOMAIN keys
       THEN resp' = NoKey /\ UNCHANGED req
     ELSE /\ req' = [pc |-> "create", appID |-> appID, user |-> user, app |-> apps[idx],
                     key |-> keys[apps[idx].SSHKeyName]]
          /\ UNCHANGED resp
  /\ UNCHANGED <<apps, keys, runs, lastRunID, task, workspace, tmpKeys, secrets, jobs, hist, call, appsFile, authVars>>

\* triggerRun from store.CreateRun on: the run row, the goroutine, the answer.
triggerRunCreate ==
  /\ req.pc = "create"
  /\ LET runID == lastRunID + 1 IN
     /\ lastRunID' = runID
     /\ runs' = CreateRun(runs, runID, req.appID, "", req.user.Username)
     /\ task' = (runID :> NewTask(req.app, req.key)) @@ task
     /\ hist' = (runID :> [NoHist EXCEPT !.statuses = <<"pending">>]) @@ hist
     /\ resp' = Accepted(runID)
  /\ req' = NoReq
  /\ UNCHANGED <<apps, keys, workspace, tmpKeys, secrets, jobs, call, appsFile, authVars>>

\* The app ids of the DELETE requests: two apps of the list and an unknown one.
DeleteIDs == {"app-local", "app-k8s", "app-none"}

NextDelete ==
  \/ \E appID \in AppIDs, user \in Users : triggerRunLookup(appID, user)
  \/ triggerRunCreate
  \/ \E appID \in DeleteIDs : deleteApp(appID)
  \/ \E r \in DOMAIN task : GoStart(r)
  \/ \E r \in DOMAIN task : GoChoose(r)
  \/ \E r \in DOMAIN task : GoFinish(r)
  \/ \E r \in DOMAIN task : GoExit(r)
  \/ \E r \in DOMAIN task : RunMkdir(r)
  \/ \E r \in DOMAIN task : RunSync(r)
  \/ \E r \in DOMAIN task : RunCommit(r)
  \/ \E r \in DOMAIN task : RunStep(r)
  \/ \E r \in DOMAIN task : RunExec(r)
  \/ \E r \in DOMAIN task : RunFailed(r)
  \/ \E r \in DOMAIN task : RunOK(r)
  \/ \E r \in DOMAIN task : RunSleepMsg(r)
  \/ \E r \in DOMAIN task : RunSleep(r)
  \/ \E r \in DOMAIN task : K8sPre(r)
  \/ \E r \in DOMAIN task : K8sApplyJob(r)
  \/ \E r \in DOMAIN task : K8sLogs(r)
  \/ \E r \in DOMAIN task : K8sDone(r)
  \/ \E r \in DOMAIN task : K8sDefer(r)
  \/ \E r \in DOMAIN task : K8sDeadline(r)
  \/ \E r \in DOMAIN jobs : JobRun(r)

DeleteSpec == Init /\ [][NextDelete]_vars

\* ------------------------------------- specification of the app handlers
\* The shapes of a submitted step: named and unnamed, trimmed and not, each
\* single mode, no mode, and two modes.
StepShapes ==
  { MkStep(<<"a">>, <<"x">>, <<>>, <<>>, FALSE, 0),
    MkStep(<<" ">>, <<" ", "x", " ">>, <<>>, <<>>, FALSE, 1),
    MkStep(<<"f">>, <<>>, <<"f", ".", "s", "h">>, <<>>, FALSE, 0),
    MkStep(<<>>, <<>>, <<>>, <<"s", " ">>, FALSE, 2),
    MkStep(<<" ", "d", " ">>, <<" ">>, <<>>, <<>>, TRUE, 0),
    MkStep(<<"z">>, <<" ">>, <<>>, <<>>, FALSE, 0),
    MkStep(<<"t">>, <<"x">>, <<"f">>, <<>>, FALSE, 0),
    MkStep(<<>>, <<"x">>, <<>>, <<>>, TRUE, 0) }

StepLists == UNION {[1..n -> StepShapes] : n \in 1..MaxSteps}

\* The values of a legacy command field: empty, blank, a command to trim.
LegacyCmds == {<<>>, <<" ">>, <<" ", "x", " ">>}

\* Bodies with a k8s_deploy step behind a cmd step and every combination of
\* given, blank and missing deploy settings.
DeployApps ==
  { MkApp("", K1, mode, ns, sa, image, manifest, chart,
          <<MkStep(<<"c">>, <<"x">>, <<>>, <<>>, FALSE, 0),
            MkStep(<<"d">>, <<>>, <<>>, <<>>, TRUE, 0)>>, <<>>, <<>>, <<>>) :
      mode \in {<<>>, <<" ", "K", "u", "b", "e", "c", "t", "l">>, HELM, <<"x">>},
      ns \in {<<" ">>, NS}, sa \in {<<>>, SA}, image \in {<<" ">>, IMG},
      manifest \in {<<>>, <<" ">>, <<"m", ".", "y">>}, chart \in {<<>>, <<"c", "h">>} }

\* The values of a sleep_sec field around the limits.
SleepSecs == {0 - 1, 0, MaxSleepSec, MaxSleepSec + 1}

\* Bodies with a sleep_sec around the limits: on a kept explicit step, on a
\* dropped explicit step, and in the legacy fields with and without an
\* explicit step list.
SleepApps ==
  { MkApp("", K1, <<>>, <<>>, <<>>, <<>>, <<>>, <<>>,
          <<MkStep(<<"a">>, <<"x">>, <<>>, <<>>, FALSE, n),
            MkStep(<<"t">>, <<"x">>, <<"f">>, <<>>, FALSE, m)>>, <<>>, <<>>, <<>>) :
      n \in SleepSecs, m \in SleepSecs }
  \cup
  { [MkApp("", K1, <<>>, <<>>, <<>>, <<>>, <<>>, <<>>, steps, <<"t">>, b, <<"d">>)
       EXCEPT !.TestSleepSec = n, !.BuildSleepSec = m, !.DeploySleepSec = 0] :
      n \in SleepSecs, m \in SleepSecs, b \in {<<>>, <<"b">>},
      steps \in {<<>>, <<MkStep(<<"a">>, <<"x">>, <<>>, <<>>, FALSE, 0)>>} }

\* The app values EffectiveSteps is called on and the bodies submitted to
\* createApp and updateApp: every step list, with a legacy command that the
\* step list overrides, every combination of the legacy fields, and the
\* bodies above.
InputApps ==
  DeployApps \cup SleepApps \cup
  { MkApp("", K1, KUBECTL, NS, SA, IMG, <<"m", ".", "y">>, <<>>, steps, <<"t">>, <<>>, <<>>) :
      steps \in StepLists }
  \cup
  { [MkApp("", K1, KUBECTL, NS, SA, IMG, <<"m", ".", "y">>, <<>>, <<>>, t, b, d)
       EXCEPT !.BuildSleepSec = 2, !.DeploySleepSec = 3] :
      t \in LegacyCmds, b \in LegacyCmds, d \in LegacyCmds }

\* The ids updateApp is asked for: an app of the list, and none.
UpdateIDs == {"app-local", "app-none"}

InitConfig ==
  /\ apps = InitialApps
  /\ keys = (K1 :> "PRIVATE KEY")
  /\ runs = <<>>
  /\ lastRunID = 0
  /\ resp = [code |-> 0]
  /\ task = <<>>
  /\ workspace = {"app-legacy"}
  /\ tmpKeys = {}
  /\ secrets = {}
  /\ jobs = <<>>
  /\ hist = <<>>
  /\ req = NoReq
  /\ appsFile = InitialApps
  /\ InitAuth
  /\ \E a \in InputApps : call = [app |-> a, arg |-> a, out |-> <<>>]

NextConfig ==
  \/ CallEffectiveSteps
  \/ createApp(call.app)
  \/ \E appID \in UpdateIDs : updateApp(AdminUser, appID, call.app)

ConfigSpec == InitConfig /\ [][NextConfig]_vars

\* ------------------------- specification with updateApp beside triggerRun
K2 == <<"k", "2">>

\* The bodies of the PUT requests: one names another key and other steps,
\* one leaves ssh_key_name out (updateApp then takes it from the list).
UpdateBodies ==
  { MkApp("", K2, <<>>, <<>>, <<>>, <<>>, <<>>, <<>>,
          <<MkStep(<<"u">>, <<"t", "r", "u", "e">>, <<>>, <<>>, FALSE, 0)>>, <<>>, <<>>, <<>>),
    MkApp("", <<>>, <<>>, <<>>, <<>>, <<>>, <<>>, <<>>,
          <<MkStep(<<"v">>, <<>>, <<>>, <<"e", "x", "i", "t">>, FALSE, 0)>>, <<>>, <<>>, <<>>) }

\* What a read of *app that is not ordered with the write s.apps[i] = app can
\* return: each field as it was when the lock was released or as it is now.
\* (A data race: triggerRun reads through the pointer after RUnlock.)
RacyRead(old, now) ==
  { [f \in DOMAIN old |-> IF f \in S THEN now[f] ELSE old[f]] :
      S \in SUBSET {f \in DOMAIN old : old[f] # now[f]} }

\* triggerRun, the lookup under appsMu.RLock: app = &s.apps[i].
triggerRunFind(appID, user) ==
  LET idx == FindApp(apps, appID) IN
  /\ req = NoReq
  /\ lastRunID < MaxRuns
  /\ IF NoAccess(user, appID)
       THEN resp' = Forbidden("user has no access to this app") /\ UNCHANGED req
     ELSE IF idx = 0
       THEN resp' = NotFound /\ UNCHANGED req
       ELSE /\ req' = [pc |-> "key", appID |-> appID, user |-> user, ptr |-> idx,
                       old |-> apps[idx]]
            /\ UNCHANGED resp
  /\ UNCHANGED <<apps, keys, runs, lastRunID, task, workspace, tmpKeys, secrets, jobs, hist, call, appsFile, authVars>>

\* triggerRun, the reads of app.SSHKeyName after RUnlock and the key lookup.
triggerRunKey ==
  /\ req.pc = "key"
  /\ \E seen \in RacyRead(req.old, apps[req.ptr]) :
       IF TrimSpace(seen.SSHKeyName) = <<>>
         THEN resp' = NoKeyName /\ req' = NoReq
       ELSE IF seen.SSHKeyName \notin DOMAIN keys
         THEN resp' = NoKey /\ req' = NoReq
       ELSE /\ req' = [pc |-> "create", appID |-> req.appID, user |-> req.user,
                       ptr |-> req.ptr, old |-> req.old, key |-> keys[seen.SSHKeyName]]
            /\ UNCHANGED resp
  /\ UNCHANGED <<apps, keys, runs, lastRunID, task, workspace, tmpKeys, secrets, jobs, hist, call, appsFile, authVars>>

\* triggerRun from store.CreateRun on; appCopy := *app reads through the
\* pointer again.
triggerRunStart ==
  /\ req.pc = "create"
  /\ \E appCopy \in RacyRead(req.old, apps[req.ptr]) :
       LET runID == lastRunID + 1 IN
       /\ lastRunID' = runID
       /\ runs' = CreateRun(runs, runID, req.appID, "", req.user.Username)
       /\ task' = (runID :> NewTask(appCopy, req.key)) @@ task
       /\ hist' = (runID :> [NoHist EXCEPT !.statuses = <<"pending">>]) @@ hist
       /\ resp' = Accepted(runID)
  /\ req' = NoReq
  /\ UNCHANGED <<apps, keys, workspace, tmpKeys, secrets, jobs, call, appsFile, authVars>>

InitUpdate ==
  /\ apps = InitialApps
  /\ keys = (K1 :> "PRIVATE KEY") @@ (K2 :> "PRIVATE KEY 2")
  /\ runs = <<>>
  /\ lastRunID = 0
  /\ resp = [code |-> 0]
  /\ task = <<>>
  /\ workspace = {"app-legacy"}
  /\ tmpKeys = {}
  /\ secrets = {}
  /\ jobs = <<>>
  /\ hist = <<>>
  /\ req = NoReq
  /\ appsFile = InitialApps
  /\ InitAuth
  /\ call = NoCall

NextUpdate ==
  \/ \E appID \in AppIDs, user \in Users : triggerRunFind(appID, user)
  \/ triggerRunKey
  \/ triggerRunStart
  \/ \E appID \in UpdateIDs, body \in UpdateBodies : updateApp(AdminUser, appID, body)
  \/ \E r \in DOMAIN task : GoStart(r)
  \/ \E r \in DOMAIN task : GoChoose(r)
  \/ \E r \in DOMAIN task : GoFinish(r)
  \/ \E r \in DOMAIN task : GoExit(r)
  \/ \E r \in DOMAIN task : RunMkdir(r)
  \/ \E r \in DOMAIN task : RunSync(r)
  \/ \E r \in DOMAIN task : RunCommit(r)
  \/ \E r \in DOMAIN task : RunStep(r)
  \/ \E r \in DOMAIN task : RunExec(r)
  \/ \E r \in DOMAIN task : RunFailed(r)
  \/ \E r \in DOMAIN task : RunOK(r)
  \/ \E r \in DOMAIN task : RunSleepMsg(r)
  \/ \E r \in DOMAIN task : RunSleep(r)
  \/ \E r \in DOMAIN task : K8sPre(r)
  \/ \E r \in DOMAIN task : K8sApplyJob(r)
  \/ \E r \in DOMAIN task : K8sLogs(r)
  \/ \E r \in DOMAIN task : K8sDone(r)
  \/ \E r \in DOMAIN task : K8sDefer(r)
  \/ \E r \in DOMAIN task : K8sDeadline(r)
  \/ \E r \in DOMAIN jobs : JobRun(r)

UpdateSpec == InitUpdate /\ [][NextUpdate]_vars

\* ------------------------------- specification of the app list and its file
\* The bodies of the POST and PUT requests of this specification: the two of
\* UpdateBodies and one whose only step has no mode.
AdminBodies ==
  UpdateBodies
  \cup { MkApp("", K1, <<>>, <<>>, <<>>, <<>>, <<>>, <<>>,
               <<MkStep(<<"z">>, <<>>, <<>>, <<>>, FALSE, 0)>>, <<>>, <<>>, <<>>) }

NextApps ==
  \/ \E body \in AdminBodies : createApp(body)
  \/ \E appID \in UpdateIDs, body \in AdminBodies : updateApp(AdminUser, appID, body)
  \/ \E appID \in DeleteIDs : deleteApp(appID)

AppsSpec == InitUpdate /\ [][NextApps]_vars

\* ------------------------------------------- users, groups and sessions
Unauthorized(msg) == [code |-> 401, error |-> msg]
AdminRequired == Forbidden("admin access required")
UserNotFound == [code |-> 404, error |-> "user not found"]
RunNotFound  == [code |-> 404, error |-> "run not found"]

\* The id of the row of the users table with this username, 0 when there is
\* none (Store.GetUserByUsername).
GetUserByUsername(username) ==
  IF \E id \in DOMAIN users : users[id].username = username
    THEN CHOOSE id \in DOMAIN users : users[id].username = username
    ELSE 0

\* Server.createSession: a token never returned before, valid for 30 minutes.
\* age is "fresh" while more than sessionRotateThreshold remains, then "old",
\* then "expired".
createSession(tbl, token, user) ==
  (token :> [User |-> user, age |-> "fresh"]) @@ tbl

\* Server.login, with the trimmed body.
login(username, password) ==
  LET id == GetUserByUsername(username) IN
  /\ lastToken < MaxTokens
  /\ IF username = "" \/ password = ""
       THEN /\ resp' = BadRequest("username and password are required")
            /\ UNCHANGED <<sessions, lastToken>>
     ELSE IF id = 0 \/ ~CheckPassword(password, users[id].password_hash)
       THEN /\ resp' = Unauthorized("invalid credentials")
            /\ UNCHANGED <<sessions, lastToken>>
     ELSE LET sessionUser == [ID |-> id, Username |-> users[id].username,
                              IsAdmin |-> users[id].is_admin] IN
          /\ lastToken' = lastToken + 1
          /\ sessions' = createSession(sessions, lastToken + 1, sessionUser)
          /\ resp' = [code |-> 200, user |-> sessionUser, token |-> lastToken + 1]
  /\ UNCHANGED <<apps, keys, runs, lastRunID, task, workspace, tmpKeys, secrets, jobs, hist,
                 req, call, appsFile, users, lastUserID, userGroups, appGroups, authReq>>

\* Server.listApps: the ids of the apps of the list, for a user without the
\* admin flag those of allowedAppIDsForUser only.
listApps(user) ==
  /\ resp' = [code |-> 200,
              apps |-> SelectSeq([i \in 1..Len(apps) |-> apps[i].ID],
                                 LAMBDA id : user.IsAdmin \/ id \in allowedAppIDsForUser(user.ID))]
  /\ UNCHANGED <<apps, keys, runs, lastRunID, task, workspace, tmpKeys, secrets, jobs, hist,
                 req, call, appsFile, authVars>>

\* Server.getApp
getApp(user, appID) ==
  LET idx == FindApp(apps, appID) IN
  /\ resp' = IF NoAccess(user, appID) THEN Forbidden("user has no access to this app")
             ELSE IF idx = 0 THEN NotFound
             ELSE [code |-> 200, id |-> appID, ssh_key_name |-> apps[idx].SSHKeyName,
                   steps |-> EffectiveSteps(apps[idx])]
  /\ UNCHANGED <<apps, keys, runs, lastRunID, task, workspace, tmpKeys, secrets, jobs, hist,
                 req, call, appsFile, authVars>>

\* Server.getRun
getRun(user, id) ==
  /\ resp' = IF id \notin DOMAIN runs THEN RunNotFound
             ELSE IF NoAccess(user, runs[id].app_id)
               THEN Forbidden("user has no access to this run")
             ELSE [code |-> 200, run |-> runs[id]]
  /\ UNCHANGED <<apps, keys, runs, lastRunID, task, workspace, tmpKeys, secrets, jobs, hist,
                 req, call, appsFile, authVars>>

\* Store.SetUserGroups and Store.SetAppGroups: the rows of the user (of the
\* app) are replaced.
SetUserGroups(tbl, userID, groupIDs) ==
  {q \in tbl : q[1] # userID} \cup {<<userID, g>> : g \in groupIDs}
SetAppGroups(tbl, appID, groupIDs) ==
  {q \in tbl : q[1] # appID} \cup {<<appID, g>> : g \in groupIDs}

\* Server.setUserGroups
setUserGroups(user, userID, groupIDs) ==
  /\ IF ~user.IsAdmin
       THEN resp' = AdminRequired /\ UNCHANGED userGroups
     ELSE IF userID \notin DOMAIN users
       THEN resp' = UserNotFound /\ UNCHANGED userGroups
     ELSE /\ userGroups' = SetUserGroups(userGroups, userID, groupIDs)
          /\ resp' = [code |-> 200, user_id |-> userID, group_ids |-> groupIDs]
  /\ UNCHANGED <<apps, keys, runs, lastRunID, task, workspace, tmpKeys, secrets, jobs, hist,
                 req, call, appsFile, users, lastUserID, appGroups, sessions, lastToken, authReq>>

\* Server.setAppGroups
setAppGroups(user, appID, groupIDs) ==
  /\ IF ~user.IsAdmin
       THEN resp' = AdminRequired /\ UNCHANGED appGroups
     ELSE IF FindApp(apps, appID) = 0
       THEN resp' = NotFound /\ UNCHANGED appGroups
     ELSE /\ appGroups' = SetAppGroups(appGroups, appID, groupIDs)
          /\ resp' = [code |-> 200, app_id |-> appID, group_ids |-> groupIDs]
  /\ UNCHANGED <<apps, keys, runs, lastRunID, task, workspace, tmpKeys, secrets, jobs, hist,
                 req, call, appsFile, users, lastUserID, userGroups, sessions, lastToken, authReq>>

\* Server.createUser, with the trimmed body and a password given.  The
\* username is UNIQUE: a second INSERT of it fails and is answered 400.
createUser(user, username, password, isAdmin, groupIDs) ==
  /\ lastUserID < MaxUsers
  /\ IF ~user.IsAdmin
       THEN resp' = AdminRequired /\ UNCHANGED <<users, lastUserID, userGroups>>
     ELSE IF username = ""
       THEN resp' = BadRequest("username is required")
            /\ UNCHANGED <<users, lastUserID, userGroups>>
     ELSE IF password = ""
       THEN resp' = BadRequest("password or password_hash is required")
            /\ UNCHANGED <<users, lastUserID, userGroups>>
     ELSE IF GetUserByUsername(username) # 0
       THEN resp' = BadRequest("UNIQUE constraint failed: users.username")
            /\ UNCHANGED <<users, lastUserID, userGroups>>
     ELSE LET id == lastUserID + 1 IN
          /\ lastUserID' = id
          /\ users' = (id :> [username |-> username, password_hash |-> HashPassword(password),
                              is_admin |-> isAdmin]) @@ users
          /\ userGroups' = SetUserGroups(userGroups, id, groupIDs)
          /\ resp' = [code |-> 201, id |-> id, username |-> username, is_admin |-> isAdmin]
  /\ UNCHANGED <<apps, keys, runs, lastRunID, task, workspace, tmpKeys, secrets, jobs, hist,
                 req, call, appsFile, appGroups, sessions, lastToken, authReq>>

\* A deleteUser without the test of the target's admin flag.
deleteUser_NoAdminTest(admin, userID) ==
  /\ IF ~admin.IsAdmin
       THEN resp' = AdminRequired /\ UNCHANGED <<users, userGroups>>
     ELSE IF userID = admin.ID
       THEN resp' = BadRequest("cannot delete current admin user")
            /\ UNCHANGED <<users, userGroups>>
     ELSE IF userID \notin DOMAIN users
       THEN resp' = UserNotFound /\ UNCHANGED <<users, userGroups>>
     ELSE /\ users' = [id \in DOMAIN users \ {userID} |-> users[id]]
          /\ userGroups' = {q \in userGroups : q[1] # userID}
          /\ resp' = [code |-> 204]
  /\ UNCHANGED <<apps, keys, runs, lastRunID, task, workspace, tmpKeys, secrets, jobs, hist,
                 req, call, appsFile, lastUserID, appGroups, sessions, lastToken, authReq>>

\* Server.deleteUser; Store.DeleteUser removes the user's row and the rows of
\* user_groups in one transaction.  The sessions of the user are left.
deleteUser(admin, userID) ==
  /\ IF ~admin.IsAdmin
       THEN resp' = AdminRequired /\ UNCHANGED <<users, userGroups>>
     ELSE IF userID = admin.ID
       THEN resp' = BadRequest("cannot delete current admin user")
            /\ UNCHANGED <<users, userGroups>>
     ELSE IF userID \notin DOMAIN users
       THEN resp' = UserNotFound /\ UNCHANGED <<users, userGroups>>
     ELSE IF users[userID].is_admin
       THEN resp' = BadRequest("cannot delete admin user")
            /\ UNCHANGED <<users, userGroups>>
     ELSE /\ users' = [id \in DOMAIN users \ {userID} |-> users[id]]
          /\ userGroups' = {q \in userGroups : q[1] # userID}
          /\ resp' = [code |-> 204]
  /\ UNCHANGED <<apps, keys, runs, lastRunID, task, workspace, tmpKeys, secrets, jobs, hist,
                 req, call, appsFile, lastUserID, appGroups, sessions, lastToken, authReq>>

\* ----------------------------- specification of the requests of the users
\* The authUser values requireAuth puts into the context of a request: the
\* users of the sessions.
ContextUsers == {sessions[t].User : t \in DOMAIN sessions}

Logins == {<<"admin", "pw-a">>, <<"dev", "pw-d">>, <<"dev", "pw-x">>, <<"eve", "pw-e">>}
AccessApps == {"app-local", "app-none"}
GroupSets == {{}, {1}, {2}}
UserIDs == {1, 2, 3}
AccessBodies ==
  { MkApp("", K2, <<>>, <<>>, <<>>, <<>>, <<>>, <<>>,
          <<MkStep(<<"u">>, <<"t", "r", "u", "e">>, <<>>, <<>>, FALSE, 0)>>, <<>>, <<>>, <<>>) }

NextAccess ==
  \/ \E l \in Logins : login(l[1], l[2])
  \/ \E user \in ContextUsers : listApps(user)
  \/ \E user \in ContextUsers, appID \in AccessApps : getApp(user, appID)
  \/ \E user \in ContextUsers, id \in 1..MaxRuns : getRun(user, id)
  \/ \E user \in ContextUsers, appID \in AccessApps : triggerRun(appID, user)
  \/ \E user \in ContextUsers, appID \in AccessApps, body \in AccessBodies :
       updateApp(user, appID, body)
  \/ \E user \in ContextUsers, groupIDs \in GroupSets : setUserGroups(user, 2, groupIDs)
  \/ \E user \in ContextUsers, groupIDs \in GroupSets : setAppGroups(user, "app-local", groupIDs)
  \/ \E user \in ContextUsers, isAdmin \in BOOLEAN :
       createUser(user, "eve", "pw-e", isAdmin, {2})
  \/ \E admin \in ContextUsers, userID \in UserIDs : deleteUser(admin, userID)

AccessSpec == InitUpdate /\ [][NextAccess]_vars

\* ------------------------------------------ specification of the sessions
\* The zero sessionData a read of Server.sessions returns for a token that is
\* not in the map; its ExpiresAt is the zero time.
NoSession == [User |-> [ID |-> 0, Username |-> "", IsAdmin |-> FALSE], age |-> "expired"]

\* Server.invalidateSession and Server.invalidateUserSessions
invalidateSession(tbl, token) == [t \in DOMAIN tbl \ {token} |-> tbl[t]]
invalidateUserSessions(tbl, userID) ==
  [t \in {x \in DOMAIN tbl : tbl[x].User.ID # userID} |-> tbl[t]]

\* The clock: a session comes within sessionRotateThreshold of its expiry,
\* then expires.
SessionAges(token) ==
  /\ token \in DOMAIN sessions
  /\ sessions[token].age # "expired"
  /\ sessions' = [sessions EXCEPT ![token].age = IF @ = "fresh" THEN "old" ELSE "expired"]
  /\ UNCHANGED <<apps, keys, runs, lastRunID, resp, task, workspace, tmpKeys, secrets, jobs,
                 hist, req, call, appsFile, users, lastUserID, userGroups, appGroups,
                 lastToken, authReq>>

\* Server.readSessionUser for a request with this cookie, first part of
\* authenticateSession; the request is GET /api/auth/me.
readSessionUser(token) ==
  /\ authReq = NoAuthReq
  /\ IF token \notin DOMAIN sessions
       THEN /\ resp' = Unauthorized("not authenticated")
            /\ UNCHANGED <<sessions, authReq>>
     ELSE IF sessions[token].age = "expired"
       THEN /\ sessions' = invalidateSession(sessions, token)
            /\ resp' = Unauthorized("not authenticated")
            /\ UNCHANGED authReq
     ELSE /\ authReq' = [pc |-> "rotate", user |-> sessions[token].User, token |-> token]
          /\ UNCHANGED <<sessions, resp>>
  /\ UNCHANGED <<apps, keys, runs, lastRunID, task, workspace, tmpKeys, secrets, jobs,
                 hist, req, call, appsFile, users, lastUserID, userGroups, appGroups, lastToken>>

\* Server.authenticateSession after readSessionUser, with rotate set: the
\* session is read again (the zero value when the token is gone) and replaced
\* when no more than sessionRotateThreshold remains.  randomToken does not fail.
authenticateSession ==
  /\ authReq.pc = "rotate"
  /\ lastToken < MaxTokens + MaxRotated
  /\ LET session == IF authReq.token \in DOMAIN sessions
                      THEN sessions[authReq.token] ELSE NoSession IN
     IF session.age # "fresh"
       THEN /\ lastToken' = lastToken + 1
            /\ sessions' = createSession(invalidateSession(sessions, authReq.token),
                                         lastToken + 1, authReq.user)
            /\ authReq' = [pc |-> "handler", user |-> authReq.user, token |-> authReq.token,
                           session |-> session, cookie |-> lastToken + 1]
     ELSE /\ authReq' = [pc |-> "handler", user |-> authReq.user, token |-> authReq.token,
                         session |-> session, cookie |-> 0]
          /\ UNCHANGED <<sessions, lastToken>>
  /\ UNCHANGED <<apps, keys, runs, lastRunID, resp, task, workspace, tmpKeys, secrets, jobs,
                 hist, req, call, appsFile, users, lastUserID, userGroups, appGroups>>

\* Server.me, after authenticateSession has returned ok.
me ==
  /\ authReq.pc = "handler"
  /\ resp' = [code |-> 200, user |-> authReq.user]
  /\ authReq' = NoAuthReq
  /\ UNCHANGED <<apps, keys, runs, lastRunID, task, workspace, tmpKeys, secrets, jobs,
                 hist, req, call, appsFile, users, lastUserID, userGroups, appGroups,
                 sessions, lastToken>>

\* Server.changeMyPassword for the user of the request, with the trimmed body.
changeMyPassword(user, currentPassword, newPassword) ==
  /\ lastToken < MaxTokens
  /\ IF currentPassword = "" \/ newPassword = ""
       THEN /\ resp' = BadRequest("current_password and new_password are required")
            /\ UNCHANGED <<users, sessions, lastToken>>
     ELSE IF user.ID \notin DOMAIN users
       THEN /\ resp' = UserNotFound
            /\ UNCHANGED <<users, sessions, lastToken>>
     ELSE IF ~CheckPassword(currentPassword, users[user.ID].password_hash)
       THEN /\ resp' = Unauthorized("invalid current password")
            /\ UNCHANGED <<users, sessions, lastToken>>
     ELSE /\ users' = [users EXCEPT ![user.ID].password_hash = HashPassword(newPassword)]
          /\ lastToken' = lastToken + 1
          /\ sessions' = createSession(invalidateUserSessions(sessions, user.ID),
                                       lastToken + 1, user)
          /\ resp' = [code |-> 200, password_updated |-> TRUE]
  /\ UNCHANGED <<apps, keys, runs, lastRunID, task, workspace, tmpKeys, secrets, jobs,
                 hist, req, call, appsFile, lastUserID, userGroups, appGroups, authReq>>

\* The users whose requests pass requireAuth as they are: those with a
\* session that has not expired.
LiveUsers == {sessions[t].User : t \in {x \in DOMAIN sessions : sessions[x].age # "expired"}}

SessionLogins == {<<"dev", "pw-d">>, <<"dev", "pw-n">>, <<"admin", "pw-a">>}
Passwords == {"pw-d", "pw-n", ""}

SessionTokens == 1..(MaxTokens + MaxRotated)

NextSession ==
  \/ \E l \in SessionLogins : login(l[1], l[2])
  \/ \E token \in SessionTokens : SessionAges(token)
  \/ \E token \in SessionTokens : readSessionUser(token)
  \/ authenticateSession
  \/ me
  \/ \E user \in LiveUsers, cur \in Passwords, new \in Passwords :
       changeMyPassword(user, cur, new)

SessionSpec == Init /\ [][NextSession]_vars

\* ------------------------------------------ specification of splitCommand
\* The characters of a command line: a letter, the three whitespace
\* characters, the two quote characters.
CmdChars == {"a", " ", "\t", "\n", "'", "\""}
Commands == UNION {[1..n -> CmdChars] : n \in 0..MaxCmdLen}

InitSplit ==
  /\ apps = InitialApps
  /\ keys = (K1 :> "PRIVATE KEY")
  /\ runs = <<>>
  /\ lastRunID = 0
  /\ resp = [code |-> 0]
  /\ task = <<>>
  /\ workspace = {"app-legacy"}
  /\ tmpKeys = {}
  /\ secrets = {}
  /\ jobs = <<>>
  /\ hist = <<>>
  /\ req = NoReq
  /\ appsFile = InitialApps
  /\ InitAuth
  /\ \E c \in Commands : call = [app |-> <<>>, arg |-> c, out |-> <<>>]

\* parts := splitCommand(command) in Runner.runCmdWithLog; out holds the
\* slice returned.
CallSplitCommand ==
  /\ call.out = <<>>
  /\ call' = [call EXCEPT !.out = <<splitCommand(call.arg)>>]
  /\ UNCHANGED <<apps, keys, runs, lastRunID, resp, task, workspace, tmpKeys,
                 secrets, jobs, hist, req, appsFile, authVars>>

NextSplit == CallSplitCommand

SplitSpec == InitSplit /\ [][NextSplit]_vars

\* --------------------------------- specification of runs side by side
\* A triggerRun that answers 409 while a run of the app has not ended.
triggerRunAgain_OneAtATime(appID, user) ==
  LET idx == FindApp(apps, appID) IN
  /\ lastRunID >= MaxRuns
  /\ lastRunID < MaxRuns + MaxMoreRuns
  /\ IF \E r \in DOMAIN runs : runs[r].app_id = appID /\ runs[r].status \in {"pending", "running"}
       THEN /\ resp' = [code |-> 409, error |-> "run in progress"]
            /\ UNCHANGED <<runs, lastRunID, task, hist>>
     ELSE LET runID == lastRunID + 1 IN
          /\ idx # 0
          /\ apps[idx].SSHKeyName \in DOMAIN keys
          /\ lastRunID' = runID
          /\ runs' = CreateRun(runs, runID, appID, "", user.Username)
          /\ task' = (runID :> NewTask(apps[idx], keys[apps[idx].SSHKeyName])) @@ task
          /\ hist' = (runID :> [NoHist EXCEPT !.statuses = <<"pending">>]) @@ hist
          /\ resp' = Accepted(runID)
  /\ UNCHANGED <<apps, keys, workspace, tmpKeys, secrets, jobs>>
  /\ UNCHANGED <<req, call, appsFile, authVars>>

\* Server.triggerRun for a trigger that comes after the first MaxRuns ones:
\* the handler looks at the app, the user's access and the key, never at the
\* runs there are.
triggerRunAgain(appID, user) ==
  LET idx == FindApp(apps, appID) IN
  /\ lastRunID >= MaxRuns
  /\ lastRunID < MaxRuns + MaxMoreRuns
  /\ IF NoAccess(user, appID)
       THEN /\ resp' = Forbidden("user has no access to this app")
            /\ UNCHANGED <<runs, lastRunID, task, hist>>
     ELSE IF idx = 0
       THEN /\ resp' = NotFound
            /\ UNCHANGED <<runs, lastRunID, task, hist>>
     ELSE IF TrimSpace(apps[idx].SSHKeyName) = <<>>
       THEN /\ resp' = NoKeyName
            /\ UNCHANGED <<runs, lastRunID, task, hist>>
     ELSE IF apps[idx].SSHKeyName \notin DOMAIN keys
       THEN /\ resp' = NoKey
            /\ UNCHANGED <<runs, lastRunID, task, hist>>
     ELSE LET runID == lastRunID + 1 IN
          /\ lastRunID' = runID
          /\ runs' = CreateRun(runs, runID, appID, "", user.Username)
          /\ task' = (runID :> NewTask(apps[idx], keys[apps[idx].SSHKeyName])) @@ task
          /\ hist' = (runID :> [NoHist EXCEPT !.statuses = <<"pending">>]) @@ hist
          /\ resp' = Accepted(runID)
  /\ UNCHANGED <<apps, keys, workspace, tmpKeys, secrets, jobs>>
  /\ UNCHANGED <<req, call, appsFile, authVars>>

\* The app of the triggers: one that runs in the local executor.
SameApp == "app-local"

NextConcurrent ==
  \/ \E user \in Users : triggerRun(SameApp, user)
  \/ \E user \in Users : triggerRunAgain(SameApp, user)
  \/ \E r \in DOMAIN task : GoStart(r)
  \/ \E r \in DOMAIN task : GoChoose(r)
  \/ \E r \in DOMAIN task : GoFinish(r)
  \/ \E r \in DOMAIN task : GoExit(r)
  \/ \E r \in DOMAIN task : RunMkdir(r)
  \/ \E r \in DOMAIN task : RunSync(r)
  \/ \E r \in DOMAIN task : RunCommit(r)
  \/ \E r \in DOMAIN task : RunStep(r)
  \/ \E r \in DOMAIN task : RunExec(r)
  \/ \E r \in DOMAIN task : RunFailed(r)
  \/ \E r \in DOMAIN task : RunOK(r)
  \/ \E r \in DOMAIN task : RunSleepMsg(r)
  \/ \E r \in DOMAIN task : RunSleep(r)

ConcurrentSpec == Init /\ [][NextConcurrent]_vars

\* --------------------------------- specification of NormalizeAppSteps
\* app = NormalizeAppSteps(app), as validateAndNormalizeApp does before it
\* looks at the steps.
CallNormalizeAppSteps ==
  /\ call.app # <<>>
  /\ call' = [call EXCEPT !.app = NormalizeAppSteps(call.app)]
  /\ UNCHANGED <<apps, keys, runs, lastRunID, resp, task, workspace, tmpKeys,
                 secrets, jobs, hist, req, appsFile, authVars>>

NextNormalize ==
  \/ CallNormalizeAppSteps
  \/ CallEffectiveSteps

NormalizeSpec == InitConfig /\ [][NextNormalize]_vars

\* --------------------------------------- specification of the ssh keys
\* Server.deleteSSHKey up to the release of appsMu: the key is looked up and
\* the app list is searched for its name under the read lock.
deleteSSHKeyCheck(name) ==
  /\ req = NoReq
  /\ IF name \notin DOMAIN keys
       THEN resp' = [code |-> 404, error |-> "ssh key not found"] /\ UNCHANGED req
     ELSE IF \E i \in 1..Len(apps) : apps[i].SSHKeyName = name
       THEN resp' = BadRequest("ssh key is in use by an app") /\ UNCHANGED req
     ELSE req' = [pc |-> "delete_key", name |-> name] /\ UNCHANGED resp
  /\ UNCHANGED <<apps, keys, runs, lastRunID, task, workspace, tmpKeys, secrets, jobs,
                 hist, call, appsFile, authVars>>

\* Server.deleteSSHKey from store.DeleteSSHKey on.
deleteSSHKeyDelete ==
  /\ req.pc = "delete_key"
  /\ IF req.name \notin DOMAIN keys
       THEN resp' = [code |-> 404, error |-> "ssh key not found"] /\ UNCHANGED keys
     ELSE \/ resp' = ServerError /\ UNCHANGED keys
          \/ /\ keys' = [n \in DOMAIN keys \ {req.name} |-> keys[n]]
             /\ resp' = [code |-> 204]
  /\ req' = NoReq
  /\ UNCHANGED <<apps, runs, lastRunID, task, workspace, tmpKeys, secrets, jobs,
                 hist, call, appsFile, authVars>>

\* The key names of the DELETE requests: the two keys and an unknown one.
KeyNames == {K1, K2, <<"k", "9">>}

NextKeys ==
  \/ \E name \in KeyNames : deleteSSHKeyCheck(name)
  \/ deleteSSHKeyDelete
  \/ \E body \in AdminBodies : createApp(body)
  \/ \E appID \in UpdateIDs, body \in AdminBodies : updateApp(AdminUser, appID, body)

KeySpec == InitUpdate /\ [][NextKeys]_vars

\* ------------------------------------------------------------- properties
Last(s) == s[Len(s)]
Range(s) == {s[i] : i \in DOMAIN s}
Terminal == {"success", "failed"}

\* The executor of run r has returned its Result to the goroutine.
Returned(r) == task[r].pc \in {"go_finish", "go_exit", "done"}
LocalRun(r) == hist[r].executors = <<"local">>
ClusterRun(r) == hist[r].executors = <<"k8s">>

\* The boundary, OK and failure markers of a log, in order.
StepLines(log) == SelectSeq(log, LAMBDA l : IsStepMarker(l) \/ IsStepOK(l) \/ IsStepFailed(l))

\* C1: the status values persisted for a run are, in order, pending, running
\* and then exactly one of success or failed; nothing is written after the
\* terminal value, and the row always holds the last value written.
C1_StatusSequence ==
  \A r \in DOMAIN hist :
    LET h == hist[r].statuses IN
    /\ Len(h) >= 1
    /\ \E t \in Terminal : IsPrefix(h, <<"pending", "running", t>>)
    /\ r \in DOMAIN runs => runs[r].status = Last(h)
    /\ (task[r].pc = "done" /\ r \in DOMAIN runs) => Len(h) = 3

C1_Witness ==
  \E r \in DOMAIN runs :
    /\ task[r].pc = "done"
    /\ hist[r].statuses = <<"pending", "running", "success">>

\* The boundary and OK markers of the steps before step k.
RECURSIVE MarkersBefore(_, _)
MarkersBefore(steps, k) ==
  IF k <= 1 THEN <<>>
  ELSE MarkersBefore(steps, k - 1)
         \o <<StepMarker(steps[k - 1].Name), StepOKLine(steps[k - 1].Name)>>

\* C2: in a local run whose step k is the first to fail, the log holds the
\* boundary and OK markers of every step before k, then the boundary and the
\* failure marker of step k, and no marker of a later step; the result is a
\* failure and that log is what the run record keeps.
C2_FirstFailure ==
  \A r \in DOMAIN hist :
    LET steps == EffectiveSteps(task[r].app) IN
    \A k \in 1..Len(steps) :
      (LocalRun(r) /\ <<"failed", k>> \in Range(hist[r].events)) =>
        LET res == task[r].result
            m   == StepLines(res.Log) IN
        /\ res.set /\ ~res.Success
        /\ Len(m) = 2 * k
        /\ SubSeq(m, 1, 2 * k - 1) = MarkersBefore(steps, k) \o <<StepMarker(steps[k].Name)>>
        /\ IsStepFailed(Last(m)) /\ Last(m)[1] = steps[k].Name
        /\ Last(res.Log) = Last(m)
        /\ (task[r].pc = "done" /\ r \in DOMAIN runs) =>
             (runs[r].status = "failed" /\ runs[r].log = res.Log)

C2_Witness ==
  \E r \in DOMAIN runs :
    /\ LocalRun(r) /\ task[r].pc = "done"
    /\ <<"failed", 2>> \in Range(hist[r].events)
    /\ runs[r].status = "failed"

\* C3: when creating the workspace, the first clone or the pull fails, the
\* run returns a failure, its status becomes failed, no step is started and
\* the log holds no step boundary marker.
C3_SyncFailure ==
  \A r \in DOMAIN hist :
    (<<"abort", 0>> \in Range(hist[r].events)) =>
      /\ Returned(r)
      /\ task[r].result.set /\ ~task[r].result.Success
      /\ hist[r].events = <<<<"abort", 0>>>>
      /\ \A i \in DOMAIN task[r].result.Log : ~IsStepMarker(task[r].result.Log[i])
      /\ r \in DOMAIN runs =>
           /\ runs[r].status # "success"
           /\ \A i \in DOMAIN runs[r].log : ~IsStepMarker(runs[r].log[i])
           /\ task[r].pc \in {"go_exit", "done"} => runs[r].status = "failed"

C3_Witness ==
  \E r \in DOMAIN runs :
    /\ task[r].pc = "done"
    /\ hist[r].events = <<<<"abort", 0>>>>
    /\ runs[r].status = "failed"
    /\ Last(runs[r].log) = SyncErrLine("git clone")

\* C4: the persisted log of every run that ended with status success ends
\* with the completion marker, in the local and in the cluster executor.
C4_SuccessLogCompleted ==
  \A r \in DOMAIN runs :
    (task[r].pc = "done" /\ runs[r].status = "success") =>
      (runs[r].log # <<>> /\ Last(runs[r].log) = CompletedLine)

\* The step events of a run in which every step succeeds: each step starts,
\* ends OK and, when it has a sleep, sleeps, before the next one starts.
RECURSIVE GatedEvents(_, _)
GatedEvents(steps, i) ==
  IF i > Len(steps) THEN <<>>
  ELSE <<<<"start", i>>, <<"ok", i>>>>
         \o (IF steps[i].SleepSec > 0 THEN <<<<"slept", i>>>> ELSE <<>>)
         \o GatedEvents(steps, i + 1)

\* C5: in both executors the steps start in the order of EffectiveSteps, one
\* at a time; a step starts only after the previous one succeeded and its
\* sleep, if any, is over; no step is skipped, repeated or reordered, and
\* nothing starts after a failed step.
C5_StepOrder ==
  \A r \in DOMAIN hist :
    LET ev   == hist[r].events
        all  == GatedEvents(EffectiveSteps(task[r].app), 1)
        n    == Len(ev) IN
    \/ ev = <<<<"abort", 0>>>>
    \/ IsPrefix(ev, all)
    \/ /\ n >= 2
       /\ ev[n][1] = "failed"
       /\ ev[n - 1] = <<"start", ev[n][2]>>
       /\ IsPrefix(SubSeq(ev, 1, n - 1), all)

C5_Witness ==
  \E r \in DOMAIN hist :
    /\ Returned(r)
    /\ Len(hist[r].events) >= 5
    /\ hist[r].events = GatedEvents(EffectiveSteps(task[r].app), 1)

\* C6: in a local run every log given to the log-update callback, and every
\* log persisted to the run record, has the one before it as a prefix, and
\* the log of the final Result has the last delivered log as a prefix.
C6_LogGrows ==
  /\ [](\A r \in DOMAIN hist :
          LocalRun(r) =>
            /\ IsPrefix(hist[r].delivered, task[r].log)
            /\ task[r].result.set => IsPrefix(hist[r].delivered, task[r].result.Log))
  /\ [][\A r \in DOMAIN hist :
          LocalRun(r) =>
            /\ IsPrefix(hist[r].delivered, hist'[r].delivered)
            /\ (r \in DOMAIN runs /\ r \in DOMAIN runs') =>
                 IsPrefix(runs[r].log, runs'[r].log)]_vars

C6_Witness ==
  \E r \in DOMAIN hist :
    /\ LocalRun(r)
    /\ task[r].result.set
    /\ Len(hist[r].delivered) >= 5
    /\ IsPrefix(hist[r].delivered, task[r].result.Log)

\* C7: every triggered run eventually ends: its goroutine returns and its
\* record holds success or failed, whatever the job does and whichever status
\* and log queries fail, because the poll loop ends at the deadline.
C7_RunEnds ==
  \A r \in 1..MaxRuns :
    (r \in DOMAIN task) ~>
      (/\ r \in DOMAIN task
       /\ task[r].pc = "done"
       /\ r \in DOMAIN runs => runs[r].status \in Terminal)

C7_Witness ==
  \E r \in DOMAIN jobs :
    /\ task[r].pc = "done"
    /\ jobs[r].pod = "running"
    /\ hist[r].observed = "none"
    /\ r \in DOMAIN runs /\ runs[r].status = "failed"

\* Some effective step of the app is of kind k8s_deploy.
HasK8sDeployStep(app) ==
  LET steps == EffectiveSteps(app) IN
  \E i \in DOMAIN steps : Kind(steps[i]) = "k8s_deploy"

\* C8 as stated: every run that ended invoked exactly one executor, the
\* cluster one exactly when some effective step is of kind k8s_deploy.
C8_ExactlyOneExecutor ==
  \A r \in DOMAIN hist :
    task[r].pc = "done" =>
      /\ Len(hist[r].executors) = 1
      /\ ClusterRun(r) <=> HasK8sDeployStep(task[r].app)

\* C8 amended: a run invokes at most one executor, and none only when the
\* temporary SSH key could not be written; the cluster executor is invoked
\* exactly when some effective step is of kind k8s_deploy, and the local
\* executor never dispatches a k8s_deploy step.
C8_AtMostOneExecutor ==
  \A r \in DOMAIN hist :
    LET k8s == HasK8sDeployStep(task[r].app) IN
    /\ Len(hist[r].executors) <= 1
    /\ ClusterRun(r) => k8s
    /\ LocalRun(r) => ~k8s
    /\ (task[r].pc \notin {"go_start", "go_choose"} /\ hist[r].executors = <<>>) =>
         /\ ~k8s
         /\ task[r].result = Result(FALSE, <<<<"failed to prepare ssh key">>>>)
         /\ r \notin tmpKeys
    /\ task[r].pc = "run_exec" => Kind(CurStep(r)) # "k8s_deploy"

C8_Witness ==
  \E r \in DOMAIN hist :
    /\ task[r].pc = "done"
    /\ hist[r].executors = <<>>
    /\ r \in DOMAIN runs /\ runs[r].status = "failed"

\* C9: once the credential secret of a run was created, its delete has been
\* issued (and, unless the delete itself failed, the secret is gone) by the
\* time runAppAsK8sJob has returned, on every return path; the result handed
\* back is the one the return statement built.
C9_SecretDeleted ==
  \A r \in DOMAIN hist :
    (Returned(r) /\ hist[r].secret # "none") =>
      /\ hist[r].secret \in {"deleted", "delete failed"}
      /\ hist[r].secret = "deleted" => r \notin secrets
      /\ task[r].result = hist[r].returned

C9_Witness ==
  \E r \in DOMAIN hist :
    /\ Returned(r)
    /\ hist[r].secret = "deleted"
    /\ r \notin DOMAIN jobs
    /\ task[r].result.Log = <<<<"failed to create job">>>>

\* C10 as stated: a cluster run in which no poll iteration read a terminal job
\* status before the deadline returns a failure whose log ends with the
\* timeout marker.
C10_TimeoutAtDeadline ==
  \A r \in DOMAIN jobs :
    (task[r].result.set /\ (hist[r].observed = "none" \/ task[r].expired)) =>
      /\ ~task[r].result.Success
      /\ task[r].result.Log # <<>>
      /\ Last(task[r].result.Log) = TimeoutLine

\* C10 amended: the deadline is looked at only after a status check that read
\* no terminal status.  When the poll loop returns without having read a
\* terminal job status at all, the deadline had passed and the result is a
\* failure whose log is the last fetched log with the timeout marker
\* appended; a terminal status read after the deadline still decides the
\* result, with the last fetched log unchanged.
C10_Timeout ==
  \A r \in DOMAIN jobs :
    task[r].result.set =>
      LET res == task[r].result IN
      IF hist[r].observed = "none"
        THEN /\ ~res.Success
             /\ task[r].expired
             /\ res.Log # <<>>
             /\ Last(res.Log) = TimeoutLine
             /\ res.Log = IF task[r].log = <<>> THEN <<TimeoutLine>>
                          ELSE task[r].log \o <<BlankLine, TimeoutLine>>
             /\ (task[r].pc = "done" /\ r \in DOMAIN runs) =>
                  (runs[r].status = "failed" /\ runs[r].log = res.Log)
        ELSE /\ res.Success <=> hist[r].observed = "succeeded"
             /\ res.Log = task[r].log

C10_Witness ==
  \E r \in DOMAIN jobs :
    /\ task[r].pc = "done"
    /\ hist[r].observed = "none"
    /\ task[r].log # <<>>
    /\ r \in DOMAIN runs /\ Last(runs[r].log) = TimeoutLine

\* A required cluster setting of the app is empty after trimming.
MissingK8sSetting(app) ==
  \/ TrimSpace(app.K8sNamespace) = <<>>
  \/ TrimSpace(app.K8sServiceAccount) = <<>>
  \/ TrimSpace(app.K8sRunnerImage) = <<>>

\* C11: a cluster run whose app snapshot has an empty namespace, service
\* account or runner image returns a failure from the first step of
\* runAppAsK8sJob, and neither the secret nor the job of the run is ever
\* applied.
C11_MissingSettingNoObjects ==
  \A r \in DOMAIN hist :
    (ClusterRun(r) /\ MissingK8sSetting(task[r].app)) =>
      /\ hist[r].secret = "none"
      /\ r \notin secrets
      /\ r \notin DOMAIN jobs
      /\ task[r].pc \in {"k8s_pre", "go_finish", "go_exit", "done"}
      /\ task[r].pc # "k8s_pre" =>
           (task[r].result.set /\ ~task[r].result.Success)
      /\ (task[r].pc = "done" /\ r \in DOMAIN runs) => runs[r].status = "failed"

C11_Witness ==
  \E r \in DOMAIN runs :
    /\ ClusterRun(r) /\ task[r].pc = "done"
    /\ TrimSpace(task[r].app.K8sServiceAccount) = <<>>
    /\ runs[r].log = <<<<"k8s service account is required">>>>

\* The result of the executor reports a cluster orchestration error: the
\* secret or the job could not be created, or the run timed out.
OrchestrationError(res) ==
  /\ res.set /\ ~res.Success /\ res.Log # <<>>
  /\ \/ res.Log = <<<<"failed to create ssh secret">>>>
     \/ res.Log = <<<<"failed to create job">>>>
     \/ Last(res.Log) = TimeoutLine

\* C12: when the cluster executor has returned after an orchestration error
\* (and the delete it issued for the secret, if any, succeeded), neither the
\* secret nor the job of the run remains in the cluster.
C12_NoObjectsAfterError ==
  \A r \in DOMAIN hist :
    (/\ ClusterRun(r) /\ Returned(r)
     /\ OrchestrationError(task[r].result)
     /\ hist[r].secret # "delete failed") =>
      (r \notin secrets /\ r \notin DOMAIN jobs)

\* The app has no ssh_key_name, or the key it names is not in the store.
NoUsableKey(app) ==
  TrimSpace(app.SSHKeyName) = <<>> \/ app.SSHKeyName \notin DOMAIN keys

\* C13: a triggerRun for an app without an ssh_key_name, or whose key is not
\* in the store, answers 400 in the same step and leaves the runs table, the
\* run counter and the tasks as they were; no run ever exists for such an app.
C13_NoKeyNoRun ==
  /\ [](\A r \in DOMAIN task : ~NoUsableKey(task[r].app))
  /\ [][\A appID \in AppIDs, user \in Users :
          LET idx == FindApp(apps, appID) IN
          (triggerRun(appID, user) /\ idx # 0 /\ NoUsableKey(apps[idx])) =>
            /\ resp' \in {NoKeyName, NoKey}
            /\ resp' = NoKeyName <=> TrimSpace(apps[idx].SSHKeyName) = <<>>
            /\ UNCHANGED <<runs, lastRunID, task, hist, tmpKeys, secrets, jobs>>]_vars

C13_Witness ==
  /\ resp = NoKey
  /\ runs = <<>> /\ task = <<>> /\ lastRunID = 0

\* C14: the step of triggerRun that creates a run record also writes the
\* response 202 with the new run's id and status pending, while the run's
\* goroutine has not taken a step; a 202 response always names a created run.
C14_RespondsAtCreation ==
  /\ [](resp.code = 202 =>
          (resp.run_id \in DOMAIN hist /\ resp.status = "pending"))
  /\ [][lastRunID' # lastRunID =>
          /\ resp' = Accepted(lastRunID')
          /\ lastRunID' \in DOMAIN runs' /\ lastRunID' \notin DOMAIN runs
          /\ runs'[lastRunID'].status = "pending"
          /\ task'[lastRunID'].pc = "go_start"]_vars

C14_Witness ==
  /\ resp.code = 202
  /\ resp.run_id \in DOMAIN runs
  /\ runs[resp.run_id].status = "success"

\* The number of modes set on a step: cmd, file, script non-blank after
\* trimming, and k8s_deploy true.
ModeCount(s) ==
  Cardinality({m \in {"cmd", "file", "script", "k8s_deploy"} :
                 \/ m = "cmd" /\ TrimSpace(s.Cmd) # <<>>
                 \/ m = "file" /\ TrimSpace(s.File) # <<>>
                 \/ m = "script" /\ TrimSpace(s.Script) # <<>>
                 \/ m = "k8s_deploy" /\ s.K8sDeploy})

HasInvalidStep(app) == \E i \in DOMAIN app.Steps : ModeCount(app.Steps[i]) # 1

\* C15: when the app submitted to createApp and updateApp has a step with no
\* mode or more than one mode, no request is answered 200 or 201 and the app
\* list stays as it was.
C15_InvalidStepRejected ==
  HasInvalidStep(call.arg) =>
    (resp.code \notin {200, 201} /\ apps = InitialApps)

\* The positions, in order, of the steps of a list with exactly one mode.
KeptIndices(steps) ==
  SelectSeq([i \in 1..Len(steps) |-> i], LAMBDA i : ModeCount(steps[i]) = 1)

\* C16 as stated: for an app with explicit steps, EffectiveSteps returns one
\* step for each step with exactly one mode, in input order, with the
\* step's cmd, file, script, k8s_deploy and sleep as they were given.
C16_KeptAsGiven ==
  \A k \in DOMAIN call.out :
    Len(call.arg.Steps) > 0 =>
      LET in  == call.arg.Steps
          out == call.out[k]
          idx == KeptIndices(in) IN
      /\ Len(out) = Len(idx)
      /\ \A j \in DOMAIN out :
           /\ out[j].Cmd = in[idx[j]].Cmd
           /\ out[j].File = in[idx[j]].File
           /\ out[j].Script = in[idx[j]].Script
           /\ out[j].K8sDeploy = in[idx[j]].K8sDeploy
           /\ out[j].SleepSec = in[idx[j]].SleepSec

\* C16 amended: for an app with explicit steps, EffectiveSteps returns one
\* step for each step with exactly one mode, in input order, with the
\* step's cmd, file and script trimmed of surrounding white space and its
\* k8s_deploy and sleep as they were given; the legacy fields play no part.
C16_KeptTrimmed ==
  \A k \in DOMAIN call.out :
    Len(call.arg.Steps) > 0 =>
      LET in  == call.arg.Steps
          out == call.out[k]
          idx == KeptIndices(in) IN
      /\ Len(out) = Len(idx)
      /\ \A j \in DOMAIN out :
           /\ out[j].Cmd = TrimSpace(in[idx[j]].Cmd)
           /\ out[j].File = TrimSpace(in[idx[j]].File)
           /\ out[j].Script = TrimSpace(in[idx[j]].Script)
           /\ out[j].K8sDeploy = in[idx[j]].K8sDeploy
           /\ out[j].SleepSec = in[idx[j]].SleepSec

C16_Witness ==
  /\ Len(call.out) >= 1
  /\ Len(call.arg.Steps) = 2
  /\ ModeCount(call.arg.Steps[1]) = 2
  /\ call.arg.Steps[2].Cmd = <<" ", "x", " ">>
  /\ Len(call.out[1]) = 1 /\ call.out[1][1].Cmd = <<"x">>

\* The cmd step the legacy fields give for one command, none when it is blank.
LegacyStep(name, cmd, sleep) ==
  IF TrimSpace(cmd) = <<>> THEN <<>>
  ELSE <<[Name |-> name, Cmd |-> TrimSpace(cmd), File |-> <<>>, Script |-> <<>>,
          K8sDeploy |-> FALSE, SleepSec |-> sleep]>>

\* C17: for an app without explicit steps EffectiveSteps returns the cmd
\* steps test, build, deploy, in that order, one for each non-blank legacy
\* command, with the trimmed command and that command's sleep, and no more.
C17_LegacySteps ==
  \A k \in DOMAIN call.out :
    Len(call.arg.Steps) = 0 =>
      call.out[k] =
        LegacyStep(<<"t", "e", "s", "t">>, call.arg.TestCmd, call.arg.TestSleepSec)
        \o LegacyStep(<<"b", "u", "i", "l", "d">>, call.arg.BuildCmd, call.arg.BuildSleepSec)
        \o LegacyStep(<<"d", "e", "p", "l", "o", "y">>, call.arg.DeployCmd, call.arg.DeploySleepSec)

C17_Witness ==
  /\ Len(call.out) >= 1
  /\ Len(call.arg.Steps) = 0
  /\ TrimSpace(call.arg.TestCmd) = <<>> /\ call.arg.TestCmd # <<>>
  /\ Len(call.out[1]) = 2
  /\ call.out[1][1].Name = <<"b", "u", "i", "l", "d">> /\ call.out[1][1].SleepSec = 2
  /\ call.out[1][2].Name = <<"d", "e", "p", "l", "o", "y">> /\ call.out[1][2].SleepSec = 3

\* The decimal digits of a position below ten.
PositionName(i) ==
  <<"s", "t", "e", "p", "-">>
    \o <<CASE i = 1 -> "1" [] i = 2 -> "2" [] i = 3 -> "3" [] i = 4 -> "4" [] i = 5 -> "5"
           [] i = 6 -> "6" [] i = 7 -> "7" [] i = 8 -> "8" [] i = 9 -> "9">>

\* C18: a kept step with a blank name is named step-i, i its 1-indexed
\* position in the step list as given, dropped steps counted; a kept step
\* with a name keeps it, trimmed.
C18_StepNames ==
  \A k \in DOMAIN call.out :
    Len(call.arg.Steps) > 0 =>
      LET in  == call.arg.Steps
          out == call.out[k]
          idx == KeptIndices(in) IN
      /\ Len(out) = Len(idx)
      /\ \A j \in DOMAIN out :
           out[j].Name = IF TrimSpace(in[idx[j]].Name) = <<>>
                           THEN PositionName(idx[j])
                           ELSE TrimSpace(in[idx[j]].Name)

C18_Witness ==
  /\ Len(call.out) >= 1
  /\ Len(call.arg.Steps) = 2
  /\ ModeCount(call.arg.Steps[1]) # 1
  /\ Len(call.out[1]) = 1
  /\ call.out[1][1].Name = <<"s", "t", "e", "p", "-", "2">>

C20_NoRunsOfDeletedApp ==
  \A r \in DOMAIN runs : FindApp(apps, runs[r].app_id) # 0

\* The app s.apps holds for an id after updateApp has stored a body over the
\* app `was`.
UpdatedApp(was, body) ==
  validateAndNormalizeApp([body EXCEPT !.ID = was.ID,
                             !.SSHKeyName = IF TrimSpace(@) = <<>> THEN was.SSHKeyName ELSE @],
                          FALSE).app

\* The values the list can hold for an app id: the app of the configuration
\* file and what the PUT requests make of it.
WholeApps(appID) ==
  LET w0 == {InitialApps[i] : i \in {j \in 1..Len(InitialApps) : InitialApps[j].ID = appID}}
      w1 == w0 \cup {UpdatedApp(a, b) : a \in w0, b \in UpdateBodies}
  IN  w1 \cup {UpdatedApp(a, b) : a \in w1, b \in UpdateBodies}

\* C21: the app configuration a run executes is a value the app list held for
\* that app, as a whole (wholly before or wholly after every updateApp), and
\* the key the run uses is the key that configuration names.
C21_ConsistentSnapshot ==
  \A r \in DOMAIN task :
    /\ task[r].app \in WholeApps(task[r].app.ID)
    /\ task[r].app.SSHKeyName \in DOMAIN keys
    /\ task[r].key = keys[task[r].app.SSHKeyName]

\* C22: between the requests that write the app list (each holds appsMu for
\* all of its writes), the in-memory list equals the list last written to
\* the configuration file, also after a request that ended with an error.
C22_ListEqualsFile == apps = appsFile

\* The apps assigned to at least one group the user belongs to.
AssignedApps(userID) ==
  {a \in {q[1] : q \in appGroups} :
     \E g \in Groups : <<userID, g>> \in userGroups /\ <<a, g>> \in appGroups}

\* What the requests of the app and run handlers can change.
accessState == <<apps, appsFile, keys, runs, lastRunID, task, hist, users, userGroups, appGroups>>

C26_AdminsKept ==
  [][\A id \in DOMAIN users :
       users[id].is_admin => (id \in DOMAIN users' /\ users'[id].is_admin)]_vars

\* An admin created through the API is in the table and a deleteUser request
\* for an admin has been refused.
C26_Witness ==
  /\ 3 \in DOMAIN users /\ users[3].is_admin
  /\ resp \in {BadRequest("cannot delete admin user"),
               BadRequest("cannot delete current admin user")}

\* The deploy settings C24 asks of an app: deploy_mode kubectl with a
\* manifest path or helm with a chart, and a namespace, a service account
\* and a runner image, none of them blank.
DeploySettingsComplete(app) ==
  LET mode == TrimSpace(ToLower(app.DeployMode)) IN
  /\ \/ mode = KUBECTL /\ TrimSpace(app.DeployManifestPath) # <<>>
     \/ mode = HELM /\ TrimSpace(app.HelmChart) # <<>>
  /\ TrimSpace(app.K8sNamespace) # <<>>
  /\ TrimSpace(app.K8sServiceAccount) # <<>>
  /\ TrimSpace(app.K8sRunnerImage) # <<>>

\* The apps of the list that were stored by a request.
StoredApps == {apps[i] : i \in 1..Len(apps)} \ {InitialApps[i] : i \in 1..Len(InitialApps)}

\* C24: when the body given to createApp and updateApp has an effective
\* k8s_deploy step and incomplete deploy settings, every request is answered
\* 400 and the app list stays as it was; every app a request has stored that
\* selects the cluster executor has complete deploy settings.
C24_DeploySettings ==
  /\ (appUsesK8sJob(call.arg) /\ ~DeploySettingsComplete(call.arg)) =>
       (resp.code \in {0, 400} /\ apps = InitialApps /\ appsFile = InitialApps)
  /\ \A app \in StoredApps : appUsesK8sJob(app) => DeploySettingsComplete(app)

\* A body with an upper-case deploy_mode and a k8s_deploy step was stored.
C24_Witness ==
  /\ resp.code = 201
  /\ call.arg.DeployMode = <<" ", "K", "u", "b", "e", "c", "t", "l">>
  /\ \E app \in StoredApps : appUsesK8sJob(app) /\ app.DeployMode = KUBECTL

\* C25: when an effective step of the body given to createApp and updateApp
\* has a sleep_sec outside 0..3600, every request is answered 400 and the app
\* list stays as it was; every effective step of every app a request has
\* stored has a sleep_sec within 0..3600.
C25_SleepRange ==
  /\ (\E i \in 1..Len(EffectiveSteps(call.arg)) :
        EffectiveSteps(call.arg)[i].SleepSec \notin 0..3600) =>
       (resp.code \in {0, 400} /\ apps = InitialApps /\ appsFile = InitialApps)
  /\ \A app \in StoredApps :
       \A i \in 1..Len(EffectiveSteps(app)) : EffectiveSteps(app)[i].SleepSec \in 0..3600

\* A legacy body whose sleeps are at the limits was stored, with the steps
\* made of its legacy fields.
C25_Witness ==
  /\ resp.code = 201
  /\ call.arg.Steps = <<>>
  /\ call.arg.TestSleepSec = 3600
  /\ \E app \in StoredApps : Len(app.Steps) = 3 /\ app.Steps[1].SleepSec = 3600

\* C27: once changeMyPassword has removed the sessions of a user, a request
\* that carries one of the removed tokens is not authenticated and is given
\* no session: no request is in its handler that found its token gone from
\* the session map at the rotation check.
C27_OldTokenRejected ==
  ~ /\ authReq.pc = "handler"
    /\ authReq.session = NoSession
    /\ authReq.user.ID \in DOMAIN users
    /\ users[authReq.user.ID].password_hash # HashPassword("pw-d")

\* C28: in a cluster job, a k8s_deploy step that reported OK ran a kubectl
\* apply or a helm upgrade between its boundary marker and its OK marker, and
\* it does not report OK when the deploy mode is neither kubectl nor helm,
\* the modes for which the local dispatch returns an error.
DeployLines(script, i) ==
  {k \in 1..Len(script) : script[k].step = i /\ script[k].op \in {"kubectl apply", "helm upgrade"}}

C28_DeployInvoked ==
  \A r \in DOMAIN jobs :
    LET app == task[r].app
        steps == EffectiveSteps(app) IN
    \A i \in 1..Len(steps) :
      (Kind(steps[i]) = "k8s_deploy" /\ <<"ok", i>> \in Range(hist[r].events)) =>
        /\ DeployLines(jobs[r].script, i) # {}
        /\ runK8sDeployWithLog(app) = "run"

\* C29: when a step has failed and the run has ended as failed, the stored
\* log ends with the failure entry of that step, `<name> step failed: <error>`,
\* behind everything the step wrote, whichever executor ran it.
C29_FailureEntry ==
  \A r \in DOMAIN runs :
    \A i \in 1..Len(EffectiveSteps(task[r].app)) :
      (runs[r].status = "failed" /\ <<"failed", i>> \in Range(hist[r].events)) =>
        /\ runs[r].log # <<>>
        /\ IsStepFailed(Last(runs[r].log))
        /\ Last(runs[r].log)[1] = EffectiveSteps(task[r].app)[i].Name

\* C30: a poll iteration whose log fetch failed leaves the accumulated log and
\* the stored log as they were, delivers nothing to the callback, returns no
\* result and goes on to the job status check; after that check the loop
\* starts another iteration unless a terminal job status was read or the
\* deadline has passed.
C30_FetchFailureTolerated ==
  [][\A r \in DOMAIN task :
       /\ (task[r].pc = "k8s_logs" /\ task'[r].pc # "k8s_logs" /\ task'[r].logErr) =>
            /\ task'[r].pc = "k8s_done"
            /\ task'[r].log = task[r].log
            /\ runs' = runs
            /\ hist'[r].delivered = hist[r].delivered
            /\ hist'[r].returned = hist[r].returned
       /\ (task[r].pc = "k8s_done" /\ task[r].logErr /\ task'[r].pc # "k8s_done") =>
            /\ (~kubectlJobDone(jobs[r])[1] /\ ~task[r].expired) => task'[r].pc = "k8s_logs"
            /\ task'[r].pc # "k8s_logs" =>
                 \/ hist'[r].observed # "none"
                 \/ task[r].expired]_vars

\* A fetch failed while the pod had written more than the loop has, and the
\* loop has started another iteration.
C30_Witness ==
  \E r \in DOMAIN task :
    /\ task[r].pc = "k8s_logs"
    /\ task[r].logErr
    /\ jobs[r].podLog # task[r].log
    /\ ~task[r].expired

\* C31: the cluster executor has returned success exactly when a poll
\* iteration read a non-zero succeeded count of the job, and failure on a zero
\* succeeded and non-zero failed count; a status check of a job with neither
\* count never ends the loop with an observed status; and a terminal status
\* that an iteration reads decides the result, without the timeout marker,
\* also when the deadline has passed.
C31_StatusDecides ==
  \A r \in DOMAIN jobs :
    /\ (task[r].result.set /\ task[r].result.Success) =>
         (hist[r].observed = "succeeded" /\ jobs[r].succeeded # 0)
    /\ hist[r].observed = "succeeded" =>
         (jobs[r].succeeded # 0 /\ task[r].result = Result(TRUE, task[r].log))
    /\ hist[r].observed = "failed" =>
         /\ jobs[r].succeeded = 0 /\ jobs[r].failed # 0
         /\ task[r].result = Result(FALSE, task[r].log)
    /\ (jobs[r].succeeded = 0 /\ jobs[r].failed = 0) => hist[r].observed = "none"

\* A terminal status was read in an iteration in which the deadline had
\* already passed, and it decided the result.
C31_Witness ==
  \E r \in DOMAIN jobs :
    /\ task[r].expired
    /\ hist[r].observed = "failed"
    /\ task[r].result = Result(FALSE, task[r].log)

\* The splitter the sentence describes: every whitespace character outside
\* quotes separates, a quote character toggles the flag and is dropped,
\* whitespace inside quotes is kept, empty runs give no token.
RECURSIVE WordsFrom(_, _, _, _, _)
WordsFrom(s, i, buf, quote, parts) ==
  IF i > Len(s) THEN (IF buf # <<>> THEN Append(parts, buf) ELSE parts)
  ELSE IF s[i] \in {"\"", "'"} THEN WordsFrom(s, i + 1, buf, ~quote, parts)
  ELSE IF IsSpace(s[i]) /\ ~quote
    THEN WordsFrom(s, i + 1, <<>>, quote, IF buf # <<>> THEN Append(parts, buf) ELSE parts)
  ELSE WordsFrom(s, i + 1, Append(buf, s[i]), quote, parts)

\* C32: splitCommand returns the words of the command line, separated at
\* every space, tab and newline outside quotes, with the quote characters
\* removed and no empty word.
C32_SplitsAtWhitespace ==
  call.out # <<>> => call.out[1] = WordsFrom(call.arg, 1, <<>>, FALSE, <<>>)

\* C33: a step of the lifecycle controller keeps every run in the table with
\* its app id, triggering principal, commit SHA and start timestamp, and a
\* run enters the table with the values of CreateRun: status pending, the
\* app id and user of the trigger, an empty commit SHA, the start timestamp
\* set, no end timestamp, an empty log.
C33_RunFrame ==
  [][/\ \A r \in DOMAIN runs :
          /\ r \in DOMAIN runs'
          /\ runs'[r].app_id = runs[r].app_id
          /\ runs'[r].triggered_by = runs[r].triggered_by
          /\ runs'[r].commit_sha = runs[r].commit_sha
          /\ runs'[r].started_at = runs[r].started_at
     /\ \A r \in DOMAIN runs' \ DOMAIN runs :
          /\ runs'[r].status = "pending" /\ runs'[r].log = <<>>
          /\ runs'[r].commit_sha = "" /\ runs'[r].started_at = "set"
          /\ runs'[r].ended_at = "null"
          /\ \E appID \in AppIDs, user \in Users :
               /\ triggerRun(appID, user)
               /\ runs'[r].app_id = appID /\ runs'[r].triggered_by = user.Username]_vars

\* A run that went through the whole lifecycle: status, log and end
\* timestamp have changed, the other columns are those of its creation.
C33_Witness ==
  \E r \in DOMAIN runs :
    /\ hist[r].statuses = <<"pending", "running", "success">>
    /\ runs[r].status = "success" /\ runs[r].log # <<>> /\ runs[r].ended_at = "set"
    /\ runs[r].commit_sha = "" /\ runs[r].started_at = "set"
    /\ runs[r].triggered_by = "admin"

\* C34: a trigger of an app with a key is accepted whatever runs there are:
\* it answers 202, creates the next run and starts its task, and leaves the
\* tasks of the other runs as they are; nothing makes a run wait for another.
C34_NoQueue ==
  [][resp' # resp =>
       /\ resp' = Accepted(lastRunID + 1)
       /\ lastRunID' = lastRunID + 1
       /\ DOMAIN task' = DOMAIN task \cup {lastRunID + 1}
       /\ task'[lastRunID + 1].pc = "go_start"
       /\ \A r \in DOMAIN task : task'[r] = task[r]]_vars

\* Two runs of the same app are in status running, each in the local executor
\* past the creation of workDir, at work in the directory workDir/appID.
C34_Witness ==
  \E r1, r2 \in DOMAIN runs :
    /\ r1 # r2
    /\ runs[r1].app_id = runs[r2].app_id
    /\ runs[r1].status = "running" /\ runs[r2].status = "running"
    /\ task[r1].pc \in {"run_sync", "run_commit", "run_step", "run_exec"}
    /\ task[r2].pc \in {"run_sync", "run_commit", "run_step", "run_exec"}
    /\ task[r1].app.ID = task[r2].app.ID

\* C35: in a run of the local executor the key file of the run exists from
\* writeTempSSHKey until the run task has written the final status and
\* returns, and is gone once the task has ended, whether the executor
\* succeeded, failed in the sync or failed in a step; when the key file could
\* not be written the executor is not invoked, no key file is left and the
\* run ends as failed with "failed to prepare ssh key".
C35_TempKeyRemoved ==
  \A r \in DOMAIN task :
    ~appUsesK8sJob(task[r].app) =>
      /\ task[r].cleanup => (r \in tmpKeys <=> task[r].pc # "done")
      /\ (task[r].cleanup /\ ~task[r].result.set) => r \in tmpKeys
      /\ ~task[r].cleanup => r \notin tmpKeys
      /\ (~task[r].cleanup /\ task[r].pc \in {"go_finish", "done"}) =>
           /\ hist[r].executors = <<>>
           /\ task[r].result = Result(FALSE, <<<<"failed to prepare ssh key">>>>)
           /\ task[r].pc = "done" =>
                (runs[r].status = "failed" /\ runs[r].log = task[r].result.Log)
      /\ hist[r].executors # <<>> => task[r].cleanup

\* A local run whose step failed has ended and its key file is gone.
C35_Witness ==
  \E r \in DOMAIN task :
    /\ task[r].pc = "done" /\ task[r].cleanup /\ r \notin tmpKeys
    /\ LocalRun(r)
    /\ \E i \in 1..Len(task[r].steps) : <<"failed", i>> \in Range(hist[r].events)
    /\ runs[r].status = "failed"

\* C36: in every state, a run of the table has its end timestamp set exactly
\* when its status is success or failed.
C36_EndedIffTerminal ==
  \A r \in DOMAIN runs :
    /\ runs[r].status \in {"pending", "running", "success", "failed"}
    /\ runs[r].ended_at = "set" <=> runs[r].status \in {"success", "failed"}

C36_Witness ==
  \E r \in DOMAIN runs :
    /\ hist[r].statuses = <<"pending", "running", "failed">>
    /\ runs[r].status = "failed" /\ runs[r].ended_at = "set"

\* C37: the effective steps of an app are the same before and after
\* NormalizeAppSteps: every result of EffectiveSteps, on the app as given or
\* on the app NormalizeAppSteps returned, is the effective steps of the app
\* as given.
C37_NormalizeKeepsSteps ==
  \A k \in DOMAIN call.out : call.out[k] = EffectiveSteps(call.arg)

\* C38: no app of the list names an ssh key that has been deleted: of the
\* keys there were at the start, every one an app names is still in the key
\* table.
C38_NamedKeysKept ==
  \A i \in 1..Len(apps) :
    apps[i].SSHKeyName \in {K1, K2} => apps[i].SSHKeyName \in DOMAIN keys

\* C39: no two apps of the in-memory list have the same id, after any
\* sequence of createApp, updateApp and deleteApp on a list that started
\* with distinct ids.
C39_DistinctIDs ==
  \A i, j \in 1..Len(apps) : apps[i].ID = apps[j].ID => i = j

\* The list holds a created app beside an app that updateApp replaced, after
\* a deleteApp removed another.
C39_Witness ==
  /\ \E i \in 1..Len(apps) : apps[i].ID \in NewAppIDs
  /\ \E j \in 1..Len(apps) : apps[j].ID = "app-local" /\ apps[j] # AppLocal
  /\ FindApp(apps, "app-k8s") = 0

====
